---- MODULE Spec2Model ----
(***************************************************************************)
(* Azure and legacy OpenStack resource adapters of cloudbridge.            *)
(*                                                                         *)
(* Python values are represented as follows.  An optional value is a       *)
(* sequence of length 0 (None) or 1; a string that the code formats or     *)
(* parses (a port range) is a sequence of one-character strings; a         *)
(* resource name that the code concatenates is a sequence of name parts.  *)
(***************************************************************************)
EXTENDS Integers, Sequences, FiniteSets, TLC

VARIABLES
    cloud,      \* backend security groups: firewall id -> list of security rules
    mem,        \* AzureVMFirewall._vm_firewall.security_rules of each adapter
    fwtags,     \* AzureVMFirewall._vm_firewall.tags['Name'] of each adapter (optional)
    nic,        \* backend NIC: network_security_group.id of the first NIC (optional)
    last,       \* the last call made in the firewall model, with arguments and result
    steps,      \* number of calls made in the firewall model
    res,        \* a tag-backed adapter: kind, wrapped payload, _state
    azure,      \* the backend resource behind res
    resop,      \* the last call made on res and how it ended
    vm,         \* AzureInstance.delete(): the VM's disks and the captured NIC / IP ids
    disks,      \* AzureInstance.delete(): the managed disks at the backend, by name
    calls,      \* AzureInstance.delete(): backend calls issued so far, in order
    pc,         \* AzureInstance.delete(): position in the handler
    prange,     \* port formatting and parsing: inputs, formatted range, parsed pair
    net,        \* a subnet adapter, a router adapter and the route table behind it
    att,        \* AzureVolume.attach / detach: the VMs' data-disk lists
    img,        \* AzureInstance.create_image: position, cached state, calls issued
    ostack,     \* an OpenStackInstance and the last call made on it
    inst,       \* an AzureInstance: its first NIC at the backend, its recorded network attributes
    race        \* two AzureInstance adapters of one VM, each inside add_vm_firewall

fwvars == <<cloud, mem, fwtags, nic, last, steps>>
resvars == <<res, azure, resop>>
delvars == <<vm, disks, calls, pc>>
vars == <<cloud, mem, fwtags, nic, last, steps, res, azure, resop, vm, disks, calls, pc, prange, net, att, img, ostack, inst, race>>

None == <<>>
Some(x) == <<x>>

\* Python truth value of an optional integer: None and 0 are false.
TruthyInt(o) == o # None /\ o[1] # 0

\* Python truth value of an optional string: None and '' are false.
TruthyStr(o) == o # None /\ o[1] # ""

\* the outcome of a backend fetch: the payload, or the error it signals.  A
\* handler reports the error it caught with log.exception(cloudError.message):
\* CloudError has the attribute, and so has every exception on Python 2
\* ("ValueError"); on Python 3 a ValueError has none ("ValueErrorBare") and
\* reading it raises AttributeError inside the handler.
Fetches == {"ok", "CloudError", "ValueError", "ValueErrorBare"}

\* the handler's log.exception(cloudError.message) goes through
MessageReads(fetch) == fetch # "ValueErrorBare"

(***************************************************************************)
(* Strings that are formatted and parsed: str(int), '+', split('-', 1),    *)
(* int(str).                                                               *)
(***************************************************************************)
Digits == <<"0", "1", "2", "3", "4", "5", "6", "7", "8", "9">>

DigitValue(c) == (CHOOSE i \in 1..10 : Digits[i] = c) - 1

IsDigit(c) == \E i \in 1..10 : Digits[i] = c

RECURSIVE StrNat(_)
StrNat(n) == IF n < 10 THEN <<Digits[n + 1]>>
             ELSE StrNat(n \div 10) \o <<Digits[(n % 10) + 1]>>

\* str(n) of a Python int
Str(n) == IF n < 0 THEN <<"-">> \o StrNat(-n) ELSE StrNat(n)

RECURSIVE NatOf(_)
NatOf(s) == IF s = <<>> THEN 0
            ELSE NatOf(SubSeq(s, 1, Len(s) - 1)) * 10 + DigitValue(s[Len(s)])

AllDigits(s) == Len(s) > 0 /\ \A i \in 1..Len(s) : IsDigit(s[i])

\* int(s) of a Python str: an optional sign followed by digits, else ValueError
IntParses(s) == \/ AllDigits(s)
                \/ Len(s) > 1 /\ s[1] \in {"-", "+"} /\ AllDigits(Tail(s))

IntOf(s) == IF s[1] = "-" THEN 0 - NatOf(Tail(s))
            ELSE IF s[1] = "+" THEN NatOf(Tail(s))
            ELSE NatOf(s)

\* s.rsplit('-', 1): at most one split, at the last '-'
SplitLast(s) ==
    IF \E i \in 1..Len(s) : s[i] = "-"
    THEN LET i == CHOOSE j \in 1..Len(s) :
                     s[j] = "-" /\ \A k \in (j + 1)..Len(s) : s[k] # "-"
         IN <<SubSeq(s, 1, i - 1), SubSeq(s, i + 1, Len(s))>>
    ELSE <<s>>

\* s.split('-', 1): at most one split, at the first '-'
SplitFirst(s) ==
    IF \E i \in 1..Len(s) : s[i] = "-"
    THEN LET i == CHOOSE j \in 1..Len(s) :
                     s[j] = "-" /\ \A k \in 1..(j - 1) : s[k] # "-"
         IN <<SubSeq(s, 1, i - 1), SubSeq(s, i + 1, Len(s))>>
    ELSE <<s>>

(***************************************************************************)
(* AzureVMFirewallRule: the adapter over one security rule.                *)
(***************************************************************************)
WildcardFrom == 1
WildcardTo == 65535
ReservedPriority == 3500
PriorityBase == 1000

PortRange(f, t) == [err |-> "none", from_port |-> f, to_port |-> t]
PortError(e) == [err |-> e, from_port |-> 0, to_port |-> 0]

\* the range split at its last '-' instead of its first
SplitAtLastDash(range) ==
    IF range = <<"*">> THEN PortRange(WildcardFrom, WildcardTo)
    ELSE LET port_range_split == SplitLast(range)
         IN IF Len(port_range_split) < 2 THEN PortError("IndexError")
            ELSE IF ~IntParses(port_range_split[1]) \/ ~IntParses(port_range_split[2])
                 THEN PortError("ValueError")
            ELSE PortRange(IntOf(port_range_split[1]), IntOf(port_range_split[2]))

\* AzureVMFirewallRule._port_range_tuple
_port_range_tuple(range) ==
    IF range = <<"*">> THEN PortRange(WildcardFrom, WildcardTo)
    ELSE LET port_range_split == SplitFirst(range)
         IN IF Len(port_range_split) < 2 THEN PortError("IndexError")
            ELSE IF ~IntParses(port_range_split[1]) \/ ~IntParses(port_range_split[2])
                 THEN PortError("ValueError")
            ELSE PortRange(IntOf(port_range_split[1]), IntOf(port_range_split[2]))

\* AzureVMFirewallRule.direction
AzureVMFirewallRule_direction(rule) == IF rule.direction = "Inbound" THEN "INBOUND" ELSE "OUTBOUND"

\* AzureVMFirewallRule.protocol
AzureVMFirewallRule_protocol(rule) == rule.protocol

\* AzureVMFirewallRule.from_port
AzureVMFirewallRule_from_port(rule) == _port_range_tuple(rule.destination_port_range).from_port

\* AzureVMFirewallRule.to_port
AzureVMFirewallRule_to_port(rule) == _port_range_tuple(rule.destination_port_range).to_port

\* AzureVMFirewallRule.cidr
AzureVMFirewallRule_cidr(rule) == rule.source_address_prefix

\* AzureVMFirewallRule.name / id
AzureVMFirewallRule_name(rule) == rule.name

\* what a caller can read of a rule: (direction, protocol, from_port, to_port, cidr)
RuleContent(rule) ==
    <<AzureVMFirewallRule_direction(rule), AzureVMFirewallRule_protocol(rule), AzureVMFirewallRule_from_port(rule), AzureVMFirewallRule_to_port(rule),
      AzureVMFirewallRule_cidr(rule)>>

(***************************************************************************)
(* Resource ids and names.  A firewall's provider-assigned name is a list  *)
(* of name parts, so that '{0}-{1}'.format(a, b) is the concatenation.     *)
(***************************************************************************)
BaseFws == {<<"fw1">>, <<"fw2">>}

\* the backend's resource id of the security group named n (VM_FIREWALL_RESOURCE_ID)
FwResourceId(n) == <<"networkSecurityGroups", n>>

\* azure_helpers.parse_url(VM_FIREWALL_RESOURCE_ID, rid).get(VM_FIREWALL_NAME)
ParseFwName(rid) == rid[2]

\* AzureVMFirewall.id
AzureVMFirewall_id(f) == f

\* AzureVMFirewall.resource_id
AzureVMFirewall_resource_id(f) == FwResourceId(f)

\* AzureVMFirewall.name: the 'Name' tag, else the provider-assigned name
AzureVMFirewall_name(f) == IF fwtags[f] # None THEN fwtags[f][1] ELSE f

(***************************************************************************)
(* AzureVMFirewallRuleContainer                                            *)
(***************************************************************************)
\* list() with the reserved band starting one above 3500
ListUpToReserved(rules) ==
    LET visible(rule) == rule.priority <= ReservedPriority
    IN SelectSeq(rules, visible)

\* AzureVMFirewallRuleContainer.list over a security group's rules
AzureVMFirewallRuleContainer_list(rules) ==
    LET visible(rule) == rule.priority < ReservedPriority
    IN SelectSeq(rules, visible)

\* destination_port_range as _create_rule formats it (line 192)
FormatPortRange(from_port, to_port) == Str(from_port) \o <<"-">> \o Str(to_port)

\* the security rule _create_rule asks the backend for, with cidr never defaulted
RuleWithoutCidrDefault(rules, direction, protocol, from_port, to_port, cidr) ==
    LET count == Len(rules) + 1
    IN [name |-> <<"Rule - ">> \o Str(count),
        priority |-> PriorityBase + count,
        protocol |-> protocol,
        source_port_range |-> <<"*">>,
        source_address_prefix |-> IF cidr = None THEN "" ELSE cidr[1],
        destination_port_range |-> FormatPortRange(from_port, to_port),
        destination_address_prefix |-> <<"*">>,
        access |-> "Allow",
        direction |-> IF direction = "INBOUND" THEN "Inbound" ELSE "Outbound"]

\* a rule numbered after the rules below the reserved band only
RuleCountingListed(rules, direction, protocol, from_port, to_port, cidr) ==
    LET count == Len(SelectSeq(rules, LAMBDA r : r.priority < ReservedPriority)) + 1
    IN [name |-> <<"Rule - ">> \o Str(count),
        priority |-> PriorityBase + count,
        protocol |-> protocol,
        source_port_range |-> <<"*">>,
        source_address_prefix |-> IF ~TruthyStr(cidr) THEN "0.0.0.0/0" ELSE cidr[1],
        destination_port_range |-> FormatPortRange(from_port, to_port),
        destination_address_prefix |-> <<"*">>,
        access |-> "Allow",
        direction |-> IF direction = "INBOUND" THEN "Inbound" ELSE "Outbound"]

\* the security rule _create_rule asks the backend for, given the in-memory
\* rule list of the firewall (rule_name and parameters, lines 186-205)
NewRule(rules, direction, protocol, from_port, to_port, cidr) ==
    LET cidr_ == IF ~TruthyStr(cidr) THEN "0.0.0.0/0" ELSE cidr[1]
        count == Len(rules) + 1
    IN [name |-> <<"Rule - ">> \o Str(count),
        priority |-> PriorityBase + count,
        protocol |-> protocol,
        source_port_range |-> <<"*">>,
        source_address_prefix |-> cidr_,
        destination_port_range |-> FormatPortRange(from_port, to_port),
        destination_address_prefix |-> <<"*">>,
        access |-> "Allow",
        direction |-> IF direction = "INBOUND" THEN "Inbound" ELSE "Outbound"]

\* azure_client.create_vm_firewall_rule: create-or-update by rule name
PutRule(rules, rule) ==
    IF \E i \in 1..Len(rules) : rules[i].name = rule.name
    THEN [i \in 1..Len(rules) |-> IF rules[i].name = rule.name THEN rule ELSE rules[i]]
    ELSE Append(rules, rule)

\* azure_client.delete_vm_firewall_rule: the rule of that name is gone
DropRule(rules, name) ==
    LET keep(rule) == rule.name # name
    IN SelectSeq(rules, keep)

\* a firewall as a call sees it: in-memory rules m, backend rules c, and the
\* value the call returns so far
FwPair(m, c) == [m |-> m, c |-> c, ret |-> None]

\* AzureVMFirewallRuleContainer._create_rule on a firewall whose in-memory rules
\* are p.m and whose backend rules are p.c: the new lists and the returned rule
_create_rule(p, direction, protocol, from_port, to_port, cidr) ==
    LET result == NewRule(p.m, direction, protocol, from_port, to_port, cidr)
    IN [m |-> Append(p.m, result), c |-> PutRule(p.c, result), ret |-> Some(result)]

\* the loop of create() over the source firewall's listed rules (lines 175-178)
RECURSIVE CloneRules(_, _)
CloneRules(p, source) ==
    IF source = <<>> THEN p
    ELSE LET rule == source[1]
             q == _create_rule(p, AzureVMFirewallRule_direction(rule),
                               AzureVMFirewallRule_protocol(rule),
                               AzureVMFirewallRule_from_port(rule),
                               AzureVMFirewallRule_to_port(rule),
                               Some(AzureVMFirewallRule_cidr(rule)))
         IN CloneRules(q, Tail(source))

\* create() cloning all but the first listed rule of the source firewall
CreateSkippingFirst(p, direction, protocol, from_port, to_port, cidr, src_dest_fw, source) ==
    IF TruthyStr(protocol) /\ TruthyInt(from_port) /\ TruthyInt(to_port)
    THEN _create_rule(p, direction, protocol[1], from_port[1], to_port[1], cidr)
    ELSE IF src_dest_fw # None
    THEN CloneRules([p EXCEPT !.ret = None], IF source = <<>> THEN source ELSE Tail(source))
    ELSE [p EXCEPT !.ret = None]

\* AzureVMFirewallRuleContainer.create; source is the rule listing of the
\* firewall src_dest_fw resolves to
AzureVMFirewallRuleContainer_create(p, direction, protocol, from_port, to_port, cidr, src_dest_fw, source) ==
    IF TruthyStr(protocol) /\ TruthyInt(from_port) /\ TruthyInt(to_port)
    THEN _create_rule(p, direction, protocol[1], from_port[1], to_port[1], cidr)
    ELSE IF src_dest_fw # None
    THEN CloneRules([p EXCEPT !.ret = None], source)
    ELSE [p EXCEPT !.ret = None]

\* AzureVMFirewallRule.delete, the in-memory part (lines 270-273): the first
\* entry of that name is removed
RemoveFirstNamed(rules, name) ==
    IF \E i \in 1..Len(rules) : rules[i].name = name
    THEN LET i == CHOOSE j \in 1..Len(rules) :
                     rules[j].name = name /\ \A k \in 1..(j - 1) : rules[k].name # name
         IN SubSeq(rules, 1, i - 1) \o SubSeq(rules, i + 1, Len(rules))
    ELSE rules

(***************************************************************************)
(* The firewall model: two security groups, their adapters, and the first  *)
(* NIC of one instance.                                                    *)
(***************************************************************************)
MaxRules == 4
MaxMerged == 1
MaxSteps == 3

Directions == {"INBOUND", "OUTBOUND"}
NameValues == {<<"web">>}

\* the arguments of the calls of create() that are made: (direction, protocol,
\* from_port, to_port, cidr), with and without a source firewall
RuleArgs ==
    { <<"INBOUND", Some("tcp"), Some(22), Some(22), None>>,
      <<"OUTBOUND", Some("tcp"), Some(22), Some(80), Some("10.0.0.0/8")>>,
      <<"INBOUND", Some("tcp"), Some(0), Some(80), None>>,
      <<"OUTBOUND", None, None, None, None>> }

\* a rule made outside this library (portal, another tool)
ForeignRule(priority, range) ==
    [name |-> <<"ext-">> \o Str(priority),
     priority |-> priority,
     protocol |-> "*",
     source_port_range |-> <<"*">>,
     source_address_prefix |-> "*",
     destination_port_range |-> range,
     destination_address_prefix |-> <<"*">>,
     access |-> "Allow",
     direction |-> "Inbound"]

\* the rule the firewall service adds to every firewall it creates, in the
\* reserved band
DefaultRule ==
    [name |-> <<"cb-default-internet-outbound">>,
     priority |-> 3998,
     protocol |-> "*",
     source_port_range |-> <<"*">>,
     source_address_prefix |-> "*",
     destination_port_range |-> <<"*">>,
     destination_address_prefix |-> <<"*">>,
     access |-> "Allow",
     direction |-> "Outbound"]

\* security.vm_firewalls.create(name, description): the rules of a new firewall
NewFirewallRules == <<DefaultRule>>

\* a firewall on which this library has made one rule
OneRuleFirewall ==
    Append(NewFirewallRules, NewRule(NewFirewallRules, "INBOUND", "tcp", 22, 22, None))

\* a firewall with rules made outside this library on both sides of the
\* reserved band's lower end
ForeignFirewall ==
    <<ForeignRule(ReservedPriority - 1, <<"*">>), ForeignRule(ReservedPriority, <<"*">>)>>

Fws == DOMAIN cloud

NoArgs == [none |-> TRUE]

Call(op, fw, args, ret, err) == [op |-> op, fw |-> fw, args |-> args, ret |-> ret, err |-> err]

InitFw ==
    /\ \E rules \in {NewFirewallRules, OneRuleFirewall} :
           cloud = [f \in BaseFws |-> IF f = <<"fw1">> THEN ForeignFirewall ELSE rules]
    /\ mem = cloud
    /\ steps = 0
    /\ fwtags = [f \in BaseFws |-> None]
    /\ nic = None
    /\ last = Call("init", <<>>, NoArgs, None, "none")

\* the listing of the firewall that src_dest_fw resolves to: the adapter passed,
\* or a fresh adapter from security.vm_firewalls.get(id)
Listing(fw, by_id) ==
    AzureVMFirewallRuleContainer_list(IF by_id THEN cloud[fw] ELSE mem[fw])

\* a call of firewall.rules.create(...)
RuleCreate(f, direction, protocol, from_port, to_port, cidr, src_dest_fw, by_id) ==
    LET source == IF src_dest_fw = None THEN <<>> ELSE Listing(src_dest_fw[1], by_id)
        r == AzureVMFirewallRuleContainer_create(
                 FwPair(mem[f], cloud[AzureVMFirewall_id(f)]), direction, protocol,
                 from_port, to_port, cidr, src_dest_fw, source)
    IN /\ Len(r.m) <= MaxRules
       /\ mem' = [mem EXCEPT ![f] = r.m]
       /\ cloud' = [cloud EXCEPT ![AzureVMFirewall_id(f)] = r.c]
       /\ last' = Call("create", f,
                       [direction |-> direction, protocol |-> protocol,
                        from_port |-> from_port, to_port |-> to_port, cidr |-> cidr,
                        src_dest_fw |-> src_dest_fw, by_id |-> by_id],
                       r.ret, "none")
       /\ UNCHANGED <<fwtags, nic>>

\* AzureVMFirewallRule.delete on the i-th in-memory rule of firewall f; accepted
\* says whether the backend accepts a deletion addressed to an unknown firewall
AzureVMFirewallRule_delete(f, i, accepted) ==
    LET rule == mem[f][i]
        vm_firewall == AzureVMFirewall_name(f)
    IN IF vm_firewall \in Fws
       THEN /\ cloud' = [cloud EXCEPT ![vm_firewall] =
                                          DropRule(@, AzureVMFirewallRule_name(rule))]
            /\ mem' = [mem EXCEPT ![f] = RemoveFirstNamed(@, AzureVMFirewallRule_name(rule))]
            /\ last' = Call("rule_delete", f, [name |-> rule.name], None, "none")
            /\ UNCHANGED <<fwtags, nic>>
       ELSE IF accepted
       THEN /\ mem' = [mem EXCEPT ![f] = RemoveFirstNamed(@, AzureVMFirewallRule_name(rule))]
            /\ last' = Call("rule_delete", f, [name |-> rule.name], None, "none")
            /\ UNCHANGED <<cloud, fwtags, nic>>
       ELSE /\ last' = Call("rule_delete", f, [name |-> rule.name], None, "CloudError")
            /\ UNCHANGED <<cloud, mem, fwtags, nic>>

\* a call of rule.delete() on a rule obtained from the firewall's listing
RuleDelete(f, i, accepted) ==
    /\ i \in 1..Len(mem[f])
    /\ mem[f][i].priority < ReservedPriority
    /\ AzureVMFirewallRule_delete(f, i, accepted)

\* AzureVMFirewall.refresh: fetch is the outcome of get_vm_firewall; the call
\* ends normally (err "none") or with the error the handler raised
AzureVMFirewall_refresh(f, fetch) ==
    /\ IF fetch = "ok" THEN mem' = [mem EXCEPT ![f] = cloud[AzureVMFirewall_id(f)]]
                       ELSE mem' = mem
    /\ last' = Call("refresh", f, [fetch |-> fetch], None,
                    IF fetch = "ok" \/ MessageReads(fetch) THEN "none" ELSE "AttributeError")
    /\ UNCHANGED <<cloud, fwtags, nic>>

\* AzureVMFirewall.name setter
AzureVMFirewall_set_name(f, value) ==
    /\ fwtags' = [fwtags EXCEPT ![f] = Some(value)]
    /\ last' = Call("set_name", f, [value |-> value], None, "none")
    /\ UNCHANGED <<cloud, mem, nic>>

(***************************************************************************)
(* AzureInstance: the firewall bound to the instance's first NIC.          *)
(***************************************************************************)
\* the firewall adapter an argument resolves to: its rules as the call reads them
FwRulesSeen(fw, by_id) == IF by_id THEN cloud[fw] ELSE mem[fw]

\* the merged firewall add_vm_firewall builds from fw and the firewall bound
\* to the NIC: its name and its rules after both clones (lines 1517-1528)
MergedName(fw, existing_fw) == AzureVMFirewall_name(fw) \o AzureVMFirewall_name(existing_fw)

\* the merge cloning the rules of fw only
MergeOnlyNew(fw, by_id, existing_fw) ==
    AzureVMFirewallRuleContainer_create(
        FwPair(NewFirewallRules, NewFirewallRules), None, None, None, None, None,
        Some(fw), AzureVMFirewallRuleContainer_list(FwRulesSeen(fw, by_id)))

MergedRules(fw, by_id, existing_fw) ==
    LET new_fw == FwPair(NewFirewallRules, NewFirewallRules)
        first == AzureVMFirewallRuleContainer_create(
                     new_fw, None, None, None, None, None, Some(fw),
                     AzureVMFirewallRuleContainer_list(FwRulesSeen(fw, by_id)))
    IN AzureVMFirewallRuleContainer_create(
           first, None, None, None, None, None, Some(existing_fw),
           AzureVMFirewallRuleContainer_list(cloud[existing_fw]))

\* AzureInstance.add_vm_firewall(fw); by_id: fw is given as an id and resolved
\* through security.vm_firewalls.get
AzureInstance_add_vm_firewall(fw, by_id) ==
    IF nic = None
    THEN /\ nic' = Some(AzureVMFirewall_resource_id(fw))
         /\ last' = Call("add_vm_firewall", fw, [by_id |-> by_id], None, "none")
         /\ UNCHANGED <<cloud, mem, fwtags>>
    ELSE LET existing_fw == ParseFwName(nic[1])
             name == MergedName(fw, existing_fw)
             merged == MergedRules(fw, by_id, existing_fw)
             all == Fws \cup {name}
         IN /\ Len(merged.m) <= MaxRules
            /\ name \in Fws \/ Cardinality(Fws \ BaseFws) < MaxMerged
            /\ cloud' = [g \in all |-> IF g = name THEN merged.c ELSE cloud[g]]
            /\ mem' = [g \in all |-> IF g = name THEN merged.m ELSE mem[g]]
            /\ fwtags' = [g \in all |-> IF g = name THEN Some(name) ELSE fwtags[g]]
            /\ nic' = Some(AzureVMFirewall_resource_id(name))
            /\ last' = Call("add_vm_firewall", fw, [by_id |-> by_id], None, "none")

\* remove_vm_firewall unbinding whatever the NIC is bound to
UnbindWhateverIsBound(bound, fw) == IF bound # None THEN Some(None) ELSE None

\* the create_nic call of remove_vm_firewall(fw): Some(the binding it pushes),
\* or None when no call is made; bound is the binding get_nic returned
RemoveVmFirewallUpdate(bound, fw) ==
    IF bound # None /\ bound[1] = AzureVMFirewall_resource_id(fw) THEN Some(None) ELSE None

\* AzureInstance.remove_vm_firewall(fw); ok: the backend accepts create_nic.
\* The call made to the backend is kept with the call's record.
AzureInstance_remove_vm_firewall(fw, ok) ==
    LET update == RemoveVmFirewallUpdate(nic, fw)
    IN /\ nic' = IF update # None /\ ok THEN update[1] ELSE nic
       /\ last' = Call("remove_vm_firewall", fw, [create_nic |-> update], None,
                       IF update # None /\ ~ok THEN "CloudError" ELSE "none")
       /\ UNCHANGED <<cloud, mem, fwtags>>

\* one more call in the firewall model; nothing else moves
FwStep ==
    /\ steps < MaxSteps
    /\ steps' = steps + 1
    /\ UNCHANGED <<res, azure, resop, vm, disks, calls, pc, prange, net, att, img, ostack, inst, race>>

NextFw ==
    \/ \E f \in Fws, a \in RuleArgs, src_dest_fw \in {None} \cup {Some(g) : g \in Fws} :
       \E by_id \in (IF src_dest_fw = None THEN {FALSE} ELSE BOOLEAN) :
          FwStep /\ RuleCreate(f, a[1], a[2], a[3], a[4], a[5], src_dest_fw, by_id)
    \/ \E f \in Fws, i \in 1..MaxRules :
       \E accepted \in (IF AzureVMFirewall_name(f) \in Fws THEN {TRUE} ELSE BOOLEAN) :
          FwStep /\ RuleDelete(f, i, accepted)
    \/ \E f \in Fws, fetch \in Fetches : FwStep /\ AzureVMFirewall_refresh(f, fetch)
    \/ \E f \in Fws, value \in NameValues : FwStep /\ AzureVMFirewall_set_name(f, value)
    \/ \E fw \in Fws, by_id \in BOOLEAN : FwStep /\ AzureInstance_add_vm_firewall(fw, by_id)
    \/ \E fw \in Fws, ok \in BOOLEAN : FwStep /\ AzureInstance_remove_vm_firewall(fw, ok)

IdleFw ==
    /\ cloud = <<>> /\ mem = <<>> /\ fwtags = <<>> /\ nic = None
    /\ last = Call("none", <<>>, NoArgs, None, "none")
    /\ steps = 0
IdleRes == res = [kind |-> "none"] /\ azure = [kind |-> "none"] /\ resop = "none"
IdleDel == vm = [none |-> TRUE] /\ disks = <<>> /\ calls = <<>> /\ pc = <<"none", 0>>
IdlePorts == prange = [stage |-> "none"]
IdleNet == net = [stage |-> "none"]
IdleAtt == att = [stage |-> "none"]
IdleImg == img = [stage |-> "none"]
IdleOs == ostack = [stage |-> "none"]
IdleLater == IdleNet /\ IdleAtt /\ IdleImg /\ IdleOs
IdleInst == inst = [stage |-> "none"]
IdleRace == race = [stage |-> "none"]
IdleLast == IdleInst /\ IdleRace

Init == InitFw /\ IdleRes /\ IdleDel /\ IdlePorts /\ IdleLater /\ IdleLast

Next == NextFw

Spec == Init /\ [][Next]_vars

(***************************************************************************)
(* Properties of the firewall model.                                       *)
(***************************************************************************)
IsPrefix(s, t) == Len(s) <= Len(t) /\ SubSeq(t, 1, Len(s)) = s

Listed(rules, rule) == \E i \in 1..Len(rules) : rules[i] = rule

\* C2: list() never returns a rule whose priority is 3500 or higher, and it
\* returns every rule of the in-memory rule list whose priority is below 3500,
\* whatever rule creations, rule deletions and refreshes came before.
C2_ListHidesReservedBand ==
    \A f \in Fws :
        LET listed == AzureVMFirewallRuleContainer_list(mem[f])
        IN /\ \A i \in 1..Len(listed) : listed[i].priority < 3500
           /\ \A j \in 1..Len(mem[f]) :
                  mem[f][j].priority < 3500 => Listed(listed, mem[f][j])

\* a firewall holding rules on both sides of 3500 after a rule was deleted
C2_Witness ==
    /\ last.op = "rule_delete"
    /\ \E f \in Fws :
          /\ \E j \in 1..Len(mem[f]) : mem[f][j].priority >= 3500
          /\ Len(AzureVMFirewallRuleContainer_list(mem[f])) > 0

AllSupplied(args) ==
    args.protocol # None /\ args.from_port # None /\ args.to_port # None

\* C3: whenever protocol, from_port and to_port are all supplied, create()
\* appends exactly one rule to the firewall's rules and returns it, for every
\* port value in 0..65535 and whether or not src_dest_fw is supplied too.
C3_CreateWithTripleMakesOneRule ==
    [][(last'.op = "create" /\ AllSupplied(last'.args))
         => /\ last'.ret # None
            /\ mem'[last'.fw] = Append(mem[last'.fw], last'.ret[1])]_vars

\* C4: create() with a source firewall and without a full protocol/ports
\* triple creates, for every rule listed by the source firewall and in that
\* order, one rule of the same direction, protocol, ports and cidr in the
\* target; it returns the last rule created, or nothing (and the target's rules
\* are unchanged) when the source lists no rule.
C4_CloneCopiesListedRules ==
    [][(last'.op = "create" /\ ~AllSupplied(last'.args) /\ last'.args.src_dest_fw # None)
         => LET f == last'.fw
                source == Listing(last'.args.src_dest_fw[1], last'.args.by_id)
                n == Len(source)
                before == Len(mem[f])
            IN /\ Len(mem'[f]) = before + n
               /\ IsPrefix(mem[f], mem'[f])
               /\ \A i \in 1..n :
                      RuleContent(mem'[f][before + i]) = RuleContent(source[i])
               /\ last'.ret = IF n = 0 THEN None ELSE Some(mem'[f][before + n])
               /\ n = 0 => mem'[f] = mem[f]]_vars

\* a clone that copied a wildcard rule of the source and returned the copy
C4_Witness ==
    /\ last.op = "create"
    /\ ~AllSupplied(last.args)
    /\ last.args.src_dest_fw # None
    /\ last.ret # None
    /\ AzureVMFirewallRule_to_port(last.ret[1]) = 65535
    /\ mem[last.fw][Len(mem[last.fw])] = last.ret[1]

\* C5: a rule created with ports 1 <= a <= b <= 65535 reads back from_port a
\* and to_port b; it reads back cidr 0.0.0.0/0 when no cidr was given and the
\* given cidr otherwise; and the firewall's listing holds it without a refresh.
C5_CreatedRuleReadsBack ==
    (/\ last.op = "create"
     /\ AllSupplied(last.args)
     /\ last.args.protocol # Some("")
     /\ 1 <= last.args.from_port[1]
     /\ last.args.from_port[1] <= last.args.to_port[1]
     /\ last.args.to_port[1] <= 65535)
    => /\ last.ret # None
       /\ LET rule == last.ret[1]
          IN /\ _port_range_tuple(rule.destination_port_range).err = "none"
             /\ AzureVMFirewallRule_from_port(rule) = last.args.from_port[1]
             /\ AzureVMFirewallRule_to_port(rule) = last.args.to_port[1]
             /\ AzureVMFirewallRule_cidr(rule) =
                    IF last.args.cidr = None THEN "0.0.0.0/0" ELSE last.args.cidr[1]
             /\ Listed(AzureVMFirewallRuleContainer_list(mem[last.fw]), rule)

\* a rule created with ports 22..22 and no cidr
C5_Witness ==
    /\ last.op = "create"
    /\ last.args.from_port = Some(22)
    /\ last.args.to_port = Some(22)
    /\ last.args.protocol = Some("tcp")
    /\ last.args.cidr = None
    /\ last.ret # None

ContentSet(rules) ==
    {RuleContent(rules[i]) : i \in 1..Len(rules)}

\* C9: add_vm_firewall(fw) on a NIC bound to a different firewall E makes a
\* firewall M whose listed rules have, as (direction, protocol, from_port,
\* to_port, cidr) tuples, exactly the union of those listed by fw and by E; the
\* NIC is then bound to M's resource id, and the rules of fw and E are unchanged.
C9_MergeIsUnion ==
    [][(/\ last'.op = "add_vm_firewall"
        /\ nic # None
        /\ ParseFwName(nic[1]) # last'.fw)
         => LET fw == last'.fw
                E == ParseFwName(nic[1])
                M == ParseFwName(nic'[1])
            IN /\ nic' # None
               /\ M \notin {fw, E}
               /\ M \in DOMAIN mem'
               /\ nic' = Some(AzureVMFirewall_resource_id(M))
               /\ ContentSet(AzureVMFirewallRuleContainer_list(mem'[M])) =
                      ContentSet(Listing(fw, last'.args.by_id))
                      \cup ContentSet(AzureVMFirewallRuleContainer_list(cloud[E]))
               /\ ContentSet(AzureVMFirewallRuleContainer_list(cloud'[M])) =
                      ContentSet(AzureVMFirewallRuleContainer_list(mem'[M]))
               /\ mem'[fw] = mem[fw] /\ cloud'[fw] = cloud[fw]
               /\ mem'[E] = mem[E] /\ cloud'[E] = cloud[E]]_vars

\* a merge of two firewalls that list different rules
C9_Witness ==
    /\ last.op = "add_vm_firewall"
    /\ nic # None
    /\ ParseFwName(nic[1]) \notin BaseFws
    /\ Cardinality(ContentSet(AzureVMFirewallRuleContainer_list(mem[ParseFwName(nic[1])]))) > 1

(***************************************************************************)
(* Formatting and parsing of port ranges, on their own.                    *)
(***************************************************************************)
FromPortSamples == {0, 1, 9, 10, 22, 80, 443, 8080, 65535}
ToPortSamples == FromPortSamples \cup {-1}

InitPorts ==
    /\ \E x \in FromPortSamples, y \in ToPortSamples, wildcard \in BOOLEAN :
          prange = [stage |-> "input", from_port |-> x, to_port |-> y,
                    wildcard |-> wildcard]
    /\ IdleFw /\ IdleRes /\ IdleDel /\ IdleLater /\ IdleLast

\* the backend answers a rule creation with the range _create_rule sent, or
\* holds a rule whose range is the wildcard
StoreRange ==
    /\ prange.stage = "input"
    /\ prange' = [stage |-> "stored", from_port |-> prange.from_port,
                  to_port |-> prange.to_port, wildcard |-> prange.wildcard,
                  range |-> IF prange.wildcard THEN <<"*">>
                            ELSE FormatPortRange(prange.from_port, prange.to_port)]

\* a read of rule.from_port and rule.to_port
ReadPorts ==
    /\ prange.stage = "stored"
    /\ prange' = [stage |-> "read", from_port |-> prange.from_port,
                  to_port |-> prange.to_port, wildcard |-> prange.wildcard,
                  range |-> prange.range,
                  got |-> _port_range_tuple(prange.range)]

PortsStep == UNCHANGED <<cloud, mem, fwtags, nic, last, steps, res, azure, resop, vm, disks, calls, pc, net, att, img, ostack, inst, race>>

NextPorts ==
    \/ PortsStep /\ StoreRange
    \/ PortsStep /\ ReadPorts

SpecPorts == InitPorts /\ [][NextPorts]_vars

\* C6: a rule whose destination_port_range is '*' reads (from_port, to_port) =
\* (1, 65535); a rule whose range is 'x-y' reads (x, y), y being all that
\* follows the first '-'.
C6_PortRangeReads ==
    prange.stage = "read"
    => /\ prange.got.err = "none"
       /\ prange.wildcard
            => prange.got.from_port = 1 /\ prange.got.to_port = 65535
       /\ ~prange.wildcard
            => /\ prange.got.from_port = prange.from_port
               /\ prange.got.to_port = prange.to_port

\* the wildcard was read
C6_Witness == prange.stage = "read" /\ prange.range = <<"*">>

(***************************************************************************)
(* Tag-backed adapters: one adapter res over one backend resource azure.   *)
(* A payload is [tags, provisioning_state, managed_by, instance_view];     *)
(* tags is None or a mapping with the keys Name and Description, each      *)
(* optional; instance_view is None or the list of display statuses.        *)
(***************************************************************************)
Kinds == {"VMFirewall", "Volume", "Snapshot", "MachineImage", "Network", "Instance", "Router"}

EmptyTags == [Name |-> None, Description |-> None]

\* `if not payload.tags: payload.tags = {}`
WithTags(tags) == IF tags = None \/ tags[1] = EmptyTags THEN Some(EmptyTags) ELSE tags

\* tags.update(key=value)
TagsUpdate(tags, key, value) == Some([tags[1] EXCEPT ![key] = Some(value)])

\* the name the provider gave the resource
ProviderName == "res1"

Payload(tags, provisioning_state, managed_by, instance_view) ==
    [name |-> ProviderName, tags |-> tags, provisioning_state |-> provisioning_state,
     managed_by |-> managed_by, instance_view |-> instance_view]

\* the id property: the payload's name
Adapter_id(r) == r.payload.name

\* the name property reading the payload's name whatever the tags
NameIgnoringTag(r) ==
    IF r.payload.tags = None THEN [err |-> "AttributeError", value |-> ""]
    ELSE [err |-> "none", value |-> r.payload.name]

\* the name property: tags.get('Name', payload.name)
Adapter_name(r) ==
    IF r.payload.tags = None THEN [err |-> "AttributeError", value |-> ""]
    ELSE [err |-> "none",
          value |-> IF r.payload.tags[1].Name = None THEN r.payload.name
                    ELSE r.payload.tags[1].Name[1]]

Adapter(kind, payload, state) == [kind |-> kind, payload |-> payload, state |-> state]

\* AzureVolume.VOLUME_STATE_MAP.get(state, VolumeState.UNKNOWN)
VOLUME_STATE_MAP(state) ==
    CASE state \in {"InProgress", "Creating"} -> "CREATING"
      [] state = "Unattached" -> "AVAILABLE"
      [] state = "Attached" -> "IN_USE"
      [] state \in {"Deleting", "Updating"} -> "CONFIGURING"
      [] state = "Deleted" -> "DELETED"
      [] state \in {"Failed", "Canceled"} -> "ERROR"
      [] OTHER -> "UNKNOWN"

\* _update_state looking at managed_by before the provisioning state
UpdateStateManagedFirst(payload) ==
    IF TruthyStr(payload.managed_by) THEN "Attached"
    ELSE IF ~(payload.provisioning_state = "Succeeded") THEN payload.provisioning_state
    ELSE "Unattached"

\* AzureVolume._update_state: the new _state
AzureVolume_update_state(payload) ==
    IF ~(payload.provisioning_state = "Succeeded") THEN payload.provisioning_state
    ELSE IF TruthyStr(payload.managed_by) THEN "Attached"
    ELSE "Unattached"

\* AzureVolume.state
AzureVolume_state(r) == VOLUME_STATE_MAP(r.state)

\* AzureInstance.INSTANCE_STATE_MAP.get(state, InstanceState.UNKNOWN)
INSTANCE_STATE_MAP(state) ==
    CASE state \in {"InProgress", "Creating"} -> "PENDING"
      [] state = "VM running" -> "RUNNING"
      [] state \in {"Updating", "Stopping", "Deleting", "VM deallocating",
                    "VM stopping", "VM starting"} -> "CONFIGURING"
      [] state = "Deleted" -> "DELETED"
      [] state \in {"Stopped", "VM stopped", "VM deallocated"} -> "STOPPED"
      [] state \in {"Canceled", "Failed"} -> "ERROR"
      [] OTHER -> "UNKNOWN"

\* the state taken from the first status entry
StateFromFirstStatus(payload) ==
    IF payload.instance_view # None /\ Len(payload.instance_view[1]) > 0
    THEN payload.instance_view[1][1]
    ELSE payload.provisioning_state

\* AzureInstance._update_state, lines 1565-1571: the new _state, once the
\* instance view has been looked for
InstanceStateOf(payload) ==
    IF payload.instance_view # None /\ Len(payload.instance_view[1]) > 1
    THEN payload.instance_view[1][2]
    ELSE payload.provisioning_state

\* AzureInstance.state
AzureInstance_state(r) == INSTANCE_STATE_MAP(r.state)

\* AzureVMFirewall.refresh
AzureVMFirewall_refresh_tags(r, fetch) ==
    IF fetch = "ok"
    THEN [r |-> [r EXCEPT !.payload = [azure EXCEPT !.tags = WithTags(azure.tags)]],
          op |-> "refresh_ok"]
    ELSE IF MessageReads(fetch) THEN [r |-> r, op |-> "refresh_err"]
    ELSE [r |-> r, op |-> "refresh_raised"]

\* AzureVolume.refresh
AzureVolume_refresh(r, fetch) ==
    IF fetch = "ok"
    THEN [r |-> [r EXCEPT !.payload = azure, !.state = AzureVolume_update_state(azure)],
          op |-> "refresh_ok"]
    ELSE IF MessageReads(fetch) THEN [r |-> [r EXCEPT !.state = "unknown"], op |-> "refresh_err"]
    ELSE [r |-> r, op |-> "refresh_raised"]

\* AzureSnapshot.refresh
AzureSnapshot_refresh(r, fetch) ==
    IF fetch = "ok"
    THEN [r |-> [r EXCEPT !.payload = azure, !.state = azure.provisioning_state],
          op |-> "refresh_ok"]
    ELSE IF MessageReads(fetch) THEN [r |-> [r EXCEPT !.state = "unknown"], op |-> "refresh_err"]
    ELSE [r |-> r, op |-> "refresh_raised"]

\* AzureMachineImage.refresh: only CloudError is caught
AzureMachineImage_refresh(r, fetch) ==
    IF fetch = "ok"
    THEN [r |-> [r EXCEPT !.payload = azure, !.state = azure.provisioning_state],
          op |-> "refresh_ok"]
    ELSE IF fetch = "CloudError"
    THEN [r |-> [r EXCEPT !.state = "unknown"], op |-> "refresh_err"]
    ELSE [r |-> r, op |-> "refresh_raised"]

\* AzureNetwork.refresh
AzureNetwork_refresh(r, fetch) ==
    IF fetch = "ok"
    THEN [r |-> [r EXCEPT !.payload = azure, !.state = azure.provisioning_state],
          op |-> "refresh_ok"]
    ELSE IF MessageReads(fetch) THEN [r |-> [r EXCEPT !.state = "unknown"], op |-> "refresh_err"]
    ELSE [r |-> r, op |-> "refresh_raised"]

\* AzureRouter.refresh: nothing is caught
AzureRouter_refresh(r, fetch) ==
    IF fetch = "ok"
    THEN [r |-> [r EXCEPT !.payload = azure], op |-> "refresh_ok"]
    ELSE [r |-> r, op |-> "refresh_raised"]

\* AzureInstance.refresh; network says whether _get_network_attributes gets
\* its answers.  A fetched VM without an instance view sends _update_state back
\* into refresh, and the calls nest until the interpreter gives up.
AzureInstance_refresh(r, fetch, network) ==
    IF fetch = "ok"
    THEN LET fetched == [azure EXCEPT !.tags = WithTags(azure.tags)]
         IN IF fetched.instance_view = None
            THEN [r |-> [r EXCEPT !.payload = fetched], op |-> "RecursionError"]
            ELSE IF network
            THEN [r |-> [r EXCEPT !.payload = fetched, !.state = InstanceStateOf(fetched)],
                  op |-> "refresh_ok"]
            ELSE [r |-> [r EXCEPT !.payload = fetched, !.state = "unknown"],
                  op |-> "refresh_err"]
    ELSE IF MessageReads(fetch) THEN [r |-> [r EXCEPT !.state = "unknown"], op |-> "refresh_err"]
    ELSE [r |-> r, op |-> "refresh_raised"]

\* AzureInstance._update_state as __init__ calls it
AzureInstance_update_state(r, fetch, network) ==
    IF r.payload.instance_view = None
    THEN LET refreshed == AzureInstance_refresh(r, fetch, network)
         IN IF refreshed.op \in {"RecursionError", "refresh_raised"} THEN refreshed
            ELSE [r |-> [refreshed.r EXCEPT !.state = InstanceStateOf(refreshed.r.payload)],
                  op |-> "init"]
    ELSE [r |-> [r EXCEPT !.state = InstanceStateOf(r.payload)], op |-> "init"]

\* __init__ of each adapter over a payload
AzureVMFirewall_init(payload) ==
    Adapter("VMFirewall", [payload EXCEPT !.tags = WithTags(payload.tags)], "")

AzureVolume_init(payload) ==
    Adapter("Volume", [payload EXCEPT !.tags = WithTags(payload.tags)],
            AzureVolume_update_state(payload))

AzureSnapshot_init(payload) ==
    Adapter("Snapshot", [payload EXCEPT !.tags = WithTags(payload.tags)],
            payload.provisioning_state)

AzureMachineImage_init(payload) ==
    Adapter("MachineImage", [payload EXCEPT !.tags = WithTags(payload.tags)],
            payload.provisioning_state)

AzureNetwork_init(payload) ==
    Adapter("Network", [payload EXCEPT !.tags = WithTags(payload.tags)],
            payload.provisioning_state)

AzureRouter_init(payload) ==
    Adapter("Router", [payload EXCEPT !.tags = WithTags(payload.tags)], "")

\* AzureInstance.__init__: _update_state, then _get_network_attributes (whose
\* CloudError nothing catches), then the tags
AzureInstance_init(payload, fetch, network) ==
    LET updated == AzureInstance_update_state(Adapter("Instance", payload, ""), fetch, network)
    IN IF updated.op \in {"RecursionError", "refresh_raised"} THEN updated
       ELSE IF ~network THEN [r |-> updated.r, op |-> "CloudError"]
       ELSE [r |-> [updated.r EXCEPT !.payload.tags = WithTags(updated.r.payload.tags)],
             op |-> "init"]

\* the name and description setters: tags.update(...), then the tags are
\* pushed to the backend; with no tag mapping the update raises AttributeError
SetTag(key, value) ==
    IF res.payload.tags = None
    THEN /\ resop' = "AttributeError"
         /\ UNCHANGED <<res, azure>>
    ELSE LET tags == TagsUpdate(res.payload.tags, key, value)
         IN /\ res' = [res EXCEPT !.payload.tags = tags]
            /\ azure' = [azure EXCEPT !.tags = tags]
            /\ resop' = "set_" \o key

HasDescriptionSetter == {"VMFirewall", "Volume", "Snapshot", "MachineImage"}

NameSamples == {"n1"}
DescriptionSamples == {"d1"}

ProvisioningStates ==
    {"Succeeded", "Failed", "Canceled", "InProgress", "Creating", "Deleting", "Updating",
     "Deleted", "Migrating"}

VmProvisioningStates == {"Succeeded", "Creating", "Failed", "Migrating"}

InstanceViews ==
    { None, Some(<<>>), Some(<<"Provisioning succeeded">>),
      Some(<<"Provisioning succeeded", "VM running">>),
      Some(<<"Provisioning succeeded", "VM deallocated">>),
      Some(<<"Provisioning succeeded", "VM resized">>) }

BackendTags == {None, Some(EmptyTags)}

\* the payloads the backend hands out for a resource of a kind
Payloads(kind) ==
    CASE kind = "Volume" ->
           {Payload(t, p, m, None) :
              t \in BackendTags, p \in ProvisioningStates, m \in {None, Some("vm1")}}
      [] kind \in {"Snapshot", "MachineImage", "Network"} ->
           {Payload(t, p, None, None) : t \in BackendTags, p \in ProvisioningStates}
      [] kind = "Instance" ->
           {Payload(t, p, None, v) :
              t \in BackendTags, p \in VmProvisioningStates, v \in InstanceViews}
      [] OTHER -> {Payload(t, "Succeeded", None, None) : t \in BackendTags}

\* the states a resource is seen to move to at the backend while an adapter
\* holds an older payload of it
Moves(kind) ==
    CASE kind = "Volume" ->
           { <<"Succeeded", Some("vm1"), None>>, <<"Succeeded", None, None>>,
             <<"Failed", Some("vm1"), None>>, <<"Migrating", None, None>> }
      [] kind \in {"Snapshot", "MachineImage", "Network"} ->
           { <<"Succeeded", None, None>>, <<"Failed", None, None>> }
      [] kind = "Instance" ->
           { <<"Succeeded", None, Some(<<"Provisioning succeeded", "VM running">>)>>,
             <<"Failed", None, Some(<<"Provisioning failed", "VM stopped">>)>>,
             <<"Succeeded", None, Some(<<"Provisioning succeeded">>)>>,
             <<"Updating", None, None>> }
      [] OTHER -> {}

InitRes ==
    /\ \E kind \in Kinds : \E payload \in Payloads(kind) :
          /\ res = Adapter(kind, payload, "")
          /\ \E view \in (IF kind = "Instance" THEN InstanceViews ELSE {None}) :
                azure = [payload EXCEPT !.instance_view = view]
    /\ resop = "none"
    /\ IdleFw /\ IdleDel /\ IdlePorts /\ IdleLater /\ IdleLast

\* a resource container wraps the payload in an adapter
Construct(fetch, network) ==
    /\ resop = "none"
    /\ LET made ==
             CASE res.kind = "VMFirewall" -> [r |-> AzureVMFirewall_init(res.payload), op |-> "init"]
               [] res.kind = "Volume" -> [r |-> AzureVolume_init(res.payload), op |-> "init"]
               [] res.kind = "Snapshot" -> [r |-> AzureSnapshot_init(res.payload), op |-> "init"]
               [] res.kind = "MachineImage" ->
                      [r |-> AzureMachineImage_init(res.payload), op |-> "init"]
               [] res.kind = "Network" -> [r |-> AzureNetwork_init(res.payload), op |-> "init"]
               [] res.kind = "Router" -> [r |-> AzureRouter_init(res.payload), op |-> "init"]
               [] res.kind = "Instance" -> AzureInstance_init(res.payload, fetch, network)
       IN /\ res' = made.r
          /\ resop' = IF made.op = "init" THEN "init" ELSE "init_" \o made.op
    /\ UNCHANGED azure

Constructed == resop \notin {"none", "init_RecursionError", "init_CloudError", "init_refresh_raised"}

Refresh(fetch, network) ==
    /\ Constructed
    /\ LET done ==
             CASE res.kind = "VMFirewall" -> AzureVMFirewall_refresh_tags(res, fetch)
               [] res.kind = "Volume" -> AzureVolume_refresh(res, fetch)
               [] res.kind = "Snapshot" -> AzureSnapshot_refresh(res, fetch)
               [] res.kind = "MachineImage" -> AzureMachineImage_refresh(res, fetch)
               [] res.kind = "Network" -> AzureNetwork_refresh(res, fetch)
               [] res.kind = "Router" -> AzureRouter_refresh(res, fetch)
               [] res.kind = "Instance" -> AzureInstance_refresh(res, fetch, network)
       IN /\ res' = done.r
          /\ resop' = done.op
    /\ UNCHANGED azure

SetName(value) ==
    /\ Constructed
    /\ SetTag("Name", value)

SetDescription(value) ==
    /\ Constructed
    /\ res.kind \in HasDescriptionSetter
    /\ SetTag("Description", value)

\* the backend resource loses its tags, or gets an empty set of them
BackendSetsTags(tags) ==
    /\ Constructed
    /\ azure.tags # tags
    /\ azure' = [azure EXCEPT !.tags = tags]
    /\ UNCHANGED <<res, resop>>

\* the backend resource moves to another state
BackendMoves(move) ==
    /\ Constructed
    /\ azure' = [azure EXCEPT !.provisioning_state = move[1], !.managed_by = move[2],
                              !.instance_view = move[3]]
    /\ azure' # azure
    /\ UNCHANGED <<res, resop>>

ResStep == UNCHANGED <<cloud, mem, fwtags, nic, last, steps, vm, disks, calls, pc, prange, net, att, img, ostack, inst, race>>

NextRes ==
    \/ \E fetch \in Fetches, network \in BOOLEAN : ResStep /\ Construct(fetch, network)
    \/ \E fetch \in Fetches, network \in BOOLEAN : ResStep /\ Refresh(fetch, network)
    \/ \E value \in NameSamples : ResStep /\ SetName(value)
    \/ \E value \in DescriptionSamples : ResStep /\ SetDescription(value)
    \/ \E tags \in BackendTags : ResStep /\ BackendSetsTags(tags)
    \/ \E move \in Moves(res.kind) : ResStep /\ BackendMoves(move)

SpecRes == InitRes /\ [][NextRes]_vars

\* C1: the wrapped payload of every tag-backed adapter has a tag mapping
\* (possibly empty) after construction and after any refreshes and name or
\* description writes, also when a refresh fetched a payload without tags.
C1_TagsNeverAbsent == Constructed => res.payload.tags # None

\* C7: after construction and after every successful refresh a volume's state
\* follows its payload: Succeeded with a managing resource is IN_USE, Succeeded
\* without one is AVAILABLE, Failed and Canceled are ERROR either way,
\* InProgress and Creating are CREATING, Deleting and Updating are CONFIGURING,
\* Deleted is DELETED, anything else is UNKNOWN.
C7_VolumeState ==
    (res.kind = "Volume" /\ resop \in {"init", "refresh_ok"})
    => LET p == res.payload.provisioning_state
           managed == res.payload.managed_by # None
       IN AzureVolume_state(res) =
            CASE p = "Succeeded" /\ managed -> "IN_USE"
              [] p = "Succeeded" /\ ~managed -> "AVAILABLE"
              [] p \in {"Failed", "Canceled"} -> "ERROR"
              [] p \in {"InProgress", "Creating"} -> "CREATING"
              [] p \in {"Deleting", "Updating"} -> "CONFIGURING"
              [] p = "Deleted" -> "DELETED"
              [] OTHER -> "UNKNOWN"

\* a refreshed volume that failed while a VM manages it
C7_Witness ==
    /\ res.kind = "Volume"
    /\ resop = "refresh_ok"
    /\ res.payload.provisioning_state = "Failed"
    /\ res.payload.managed_by # None
    /\ AzureVolume_state(res) = "ERROR"

\* C8: after construction and after every successful refresh, an instance
\* whose instance view has two or more status entries has the state its second
\* entry's display status maps to, whatever the provisioning state; with fewer
\* entries it has the state the provisioning state maps to; a string outside
\* the table maps to UNKNOWN.
C8_InstanceState ==
    (res.kind = "Instance" /\ resop \in {"init", "refresh_ok"})
    => LET view == res.payload.instance_view
           statuses == IF view = None THEN <<>> ELSE view[1]
           source == IF Len(statuses) >= 2 THEN statuses[2]
                     ELSE res.payload.provisioning_state
       IN AzureInstance_state(res) =
            CASE source \in {"InProgress", "Creating"} -> "PENDING"
              [] source = "VM running" -> "RUNNING"
              [] source \in {"Updating", "Stopping", "Deleting", "VM deallocating",
                             "VM stopping", "VM starting"} -> "CONFIGURING"
              [] source = "Deleted" -> "DELETED"
              [] source \in {"Stopped", "VM stopped", "VM deallocated"} -> "STOPPED"
              [] source \in {"Canceled", "Failed"} -> "ERROR"
              [] OTHER -> "UNKNOWN"

\* a refreshed instance whose second status entry and provisioning state map
\* to different states
C8_Witness ==
    /\ res.kind = "Instance"
    /\ resop = "refresh_ok"
    /\ res.payload.instance_view # None
    /\ Len(res.payload.instance_view[1]) >= 2
    /\ INSTANCE_STATE_MAP(res.payload.instance_view[1][2])
         # INSTANCE_STATE_MAP(res.payload.provisioning_state)
    /\ AzureInstance_state(res) = "STOPPED"

(***************************************************************************)
(* AzureInstance.delete(): one backend call per step.                      *)
(***************************************************************************)
MaxDisks == 2

\* the backend's resource id of the managed disk named n (VOLUME_RESOURCE_ID)
DiskResourceId(n) == <<"disks", n>>

\* azure_helpers.parse_url(VOLUME_RESOURCE_ID, rid).get(VOLUME_NAME)
ParseDiskName(rid) == rid[2]

NoDiskTags == [Name |-> None, delete_on_terminate |-> None]

DiskTagSamples ==
    { None, Some(NoDiskTags),
      Some([Name |-> Some("data"), delete_on_terminate |-> None]),
      Some([Name |-> None, delete_on_terminate |-> Some("True")]),
      Some([Name |-> None, delete_on_terminate |-> Some("False")]),
      Some([Name |-> None, delete_on_terminate |-> Some("true")]) }

\* the test of lines 1376-1378 taking any non-empty tag value for a yes
QualifiesOnAnyValue(disk) ==
    /\ disk.tags # None
    /\ disk.tags[1] # NoDiskTags
    /\ TruthyStr(disk.tags[1].delete_on_terminate)

\* lines 1376-1378: disk and disk.tags and
\* disk.tags.get('delete_on_terminate', 'False') == 'True'
Qualifies(disk) ==
    /\ disk.tags # None
    /\ disk.tags[1] # NoDiskTags
    /\ (IF disk.tags[1].delete_on_terminate = None THEN "False"
        ELSE disk.tags[1].delete_on_terminate[1]) = "True"

DataDiskName(i) == <<"data", i>>
OsDiskName == <<"os", 0>>

\* a disk of the VM's storage profile: managed_disk is None for a disk kept
\* as a blob
ProfileDisk(name, managed) ==
    [name |-> name, managed_disk |-> IF managed THEN Some(DiskResourceId(name)) ELSE None]

InitDel ==
    /\ \E n \in 0..MaxDisks :
       \E managed \in [1..n -> BOOLEAN], tags \in [1..n -> DiskTagSamples],
          os_managed \in BOOLEAN, os_tags \in {None, Some([Name |-> None, delete_on_terminate |-> Some("False")])},
          attached \in {<<<<"nic1">>, <<>>>>, <<<<"nic1", "nic2">>, <<"ip1">>>>} :
          /\ vm = [name |-> "vm1",
                   data_disks |-> [i \in 1..n |-> ProfileDisk(DataDiskName(i), managed[i])],
                   os_disk |-> ProfileDisk(OsDiskName, os_managed),
                   nic_ids |-> attached[1],
                   public_ip_ids |-> attached[2]]
          /\ disks = [d \in {DataDiskName(i) : i \in {j \in 1..n : managed[j]}}
                            \cup (IF os_managed THEN {OsDiskName} ELSE {}) |->
                        [tags |-> IF d = OsDiskName THEN os_tags
                                  ELSE tags[d[2]],
                         deleted |-> FALSE]]
    /\ calls = <<>>
    /\ pc = <<"idle", 0>>
    /\ IdleFw /\ IdleRes /\ IdlePorts /\ IdleLater /\ IdleLast

\* delete() as it would go on without the loop over the public IPs
RECURSIVE SkipPublicIps(_)
SkipPublicIps(point) ==
    CASE point[1] = "delete_nic" ->
           IF point[2] > Len(vm.nic_ids) THEN SkipPublicIps(<<"get_disk", 1>>) ELSE point
      [] point[1] = "delete_public_ip" -> SkipPublicIps(<<"get_disk", 1>>)
      [] point[1] = "get_disk" ->
           IF point[2] > Len(vm.data_disks) THEN SkipPublicIps(<<"os_disk", 0>>)
           ELSE IF vm.data_disks[point[2]].managed_disk = None
           THEN SkipPublicIps(<<"get_disk", point[2] + 1>>)
           ELSE point
      [] point[1] = "os_disk" ->
           IF vm.os_disk.managed_disk = None THEN <<"done", 0>> ELSE point
      [] OTHER -> point

\* the next point of delete() at or after a point, past the loops that have
\* nothing left and the disks that are not managed
RECURSIVE Skip(_)
Skip(point) ==
    CASE point[1] = "delete_nic" ->
           IF point[2] > Len(vm.nic_ids) THEN Skip(<<"delete_public_ip", 1>>) ELSE point
      [] point[1] = "delete_public_ip" ->
           IF point[2] > Len(vm.public_ip_ids) THEN Skip(<<"get_disk", 1>>) ELSE point
      [] point[1] = "get_disk" ->
           IF point[2] > Len(vm.data_disks) THEN Skip(<<"os_disk", 0>>)
           ELSE IF vm.data_disks[point[2]].managed_disk = None
           THEN Skip(<<"get_disk", point[2] + 1>>)
           ELSE point
      [] point[1] = "os_disk" ->
           IF vm.os_disk.managed_disk = None THEN <<"done", 0>> ELSE point
      [] OTHER -> point

\* AzureInstance.delete(), from one backend call to the next; ok says whether
\* the call succeeds, and a call that fails ends delete() with its error
AzureInstance_delete(ok) ==
    LET i == pc[2]
        issue(call, arg) == calls' = Append(calls, <<call, arg, ok>>)
        goto(point) == pc' = IF ok THEN Skip(point) ELSE <<"failed", 0>>
    IN CASE pc[1] = "deallocate_vm" ->
              issue("deallocate_vm", vm.name) /\ goto(<<"delete_vm", 0>>) /\ UNCHANGED disks
         [] pc[1] = "delete_vm" ->
              issue("delete_vm", vm.name) /\ goto(<<"delete_nic", 1>>) /\ UNCHANGED disks
         [] pc[1] = "delete_nic" ->
              issue("delete_nic", vm.nic_ids[i]) /\ goto(<<"delete_nic", i + 1>>)
              /\ UNCHANGED disks
         [] pc[1] = "delete_public_ip" ->
              issue("delete_public_ip", vm.public_ip_ids[i])
              /\ goto(<<"delete_public_ip", i + 1>>) /\ UNCHANGED disks
         [] pc[1] = "get_disk" ->
              LET name == ParseDiskName(vm.data_disks[i].managed_disk[1])
              IN /\ issue("get_disk", name)
                 /\ goto(IF Qualifies(disks[name]) THEN <<"delete_disk", i>>
                         ELSE <<"get_disk", i + 1>>)
                 /\ UNCHANGED disks
         [] pc[1] = "delete_disk" ->
              LET name == ParseDiskName(vm.data_disks[i].managed_disk[1])
              IN /\ issue("delete_disk", name)
                 /\ goto(<<"get_disk", i + 1>>)
                 /\ disks' = IF ok THEN [disks EXCEPT ![name].deleted = TRUE] ELSE disks
         [] pc[1] = "os_disk" ->
              LET name == ParseDiskName(vm.os_disk.managed_disk[1])
              IN /\ issue("delete_disk", name)
                 /\ goto(<<"done", 0>>)
                 /\ disks' = IF ok THEN [disks EXCEPT ![name].deleted = TRUE] ELSE disks

\* a caller calls instance.delete()
CallDelete ==
    /\ pc = <<"idle", 0>>
    /\ pc' = <<"deallocate_vm", 0>>
    /\ UNCHANGED <<vm, disks, calls>>

DeleteStep(ok) ==
    /\ pc[1] \notin {"idle", "done", "failed", "none"}
    /\ AzureInstance_delete(ok)
    /\ UNCHANGED vm

DelStep == UNCHANGED <<cloud, mem, fwtags, nic, last, steps, res, azure, resop, prange, net, att, img, ostack, inst, race>>

NextDel ==
    \/ DelStep /\ CallDelete
    \/ \E ok \in BOOLEAN : DelStep /\ DeleteStep(ok)

SpecDel == InitDel /\ [][NextDel]_vars

\* the tags of the backend disk hold delete_on_terminate with the value 'True'
TaggedTrue(name) ==
    /\ disks[name].tags # None
    /\ disks[name].tags[1].delete_on_terminate = Some("True")

\* a successful delete_disk call for the disk is among the calls issued
DiskDeleted(name) == \E k \in 1..Len(calls) : calls[k] = <<"delete_disk", name, TRUE>>

DataDisksDeletedIffTagged ==
    \A i \in 1..Len(vm.data_disks) :
        vm.data_disks[i].managed_disk # None
        => /\ DiskDeleted(DataDiskName(i)) <=> TaggedTrue(DataDiskName(i))
           /\ disks[DataDiskName(i)].deleted <=> TaggedTrue(DataDiskName(i))

\* C10 as stated: in a completed delete() a managed data disk is deleted
\* exactly when its tags hold delete_on_terminate = 'True', and the OS disk is
\* deleted always.
C10_OsDiskAlwaysDeleted ==
    pc[1] = "done" => DataDisksDeletedIffTagged /\ DiskDeleted(OsDiskName)

\* C10 amended: in a completed delete() a managed data disk is deleted exactly
\* when its tags hold delete_on_terminate = 'True', and the OS disk is deleted,
\* whatever its tags, when it is a managed disk; an OS disk that is not a
\* managed disk is not deleted.
C10_DisksDeletedOnTerminate ==
    pc[1] = "done"
    => /\ DataDisksDeletedIffTagged
       /\ DiskDeleted(OsDiskName) <=> vm.os_disk.managed_disk # None
       /\ vm.os_disk.managed_disk # None => disks[OsDiskName].deleted

\* a completed delete() of a VM with a data disk tagged 'True', one tagged
\* otherwise, and a managed OS disk without the tag
C10_Witness ==
    /\ pc[1] = "done"
    /\ \E i, j \in 1..Len(vm.data_disks) :
          /\ vm.data_disks[i].managed_disk # None
          /\ vm.data_disks[j].managed_disk # None
          /\ TaggedTrue(DataDiskName(i)) /\ disks[DataDiskName(i)].deleted
          /\ disks[DataDiskName(j)].tags = Some([Name |-> None, delete_on_terminate |-> Some("true")])
          /\ ~disks[DataDiskName(j)].deleted
    /\ vm.os_disk.managed_disk # None
    /\ ~TaggedTrue(OsDiskName)
    /\ disks[OsDiskName].deleted

(***************************************************************************)
(* Subnets, routers and regions.  A subnet adapter over the subnet `name`  *)
(* of the network `network_id`, a router adapter with its cached route     *)
(* table, the route table at the backend, and a region.                    *)
(***************************************************************************)
\* the literal '|$|'
SubnetIdDelimiter == <<"|", "$", "|">>

\* the first index at or after i where sep occurs in str, or 0
RECURSIVE FindFrom(_, _, _)
FindFrom(str, sep, i) ==
    IF i + Len(sep) - 1 > Len(str) THEN 0
    ELSE IF SubSeq(str, i, i + Len(sep) - 1) = sep THEN i
    ELSE FindFrom(str, sep, i + 1)

\* str.split(sep)
RECURSIVE SplitOn(_, _)
SplitOn(str, sep) ==
    LET k == FindFrom(str, sep, 1)
    IN IF k = 0 THEN <<str>>
       ELSE <<SubSeq(str, 1, k - 1)>> \o SplitOn(SubSeq(str, k + Len(sep), Len(str)), sep)

\* a subnet adapter: _url_params.get(NETWORK_NAME) and _subnet.name
SubnetAdapter(network_id, name) == [network_id |-> network_id, name |-> name]

\* AzureSubnet.network_id
AzureSubnet_network_id(subnet) == subnet.network_id

\* AzureSubnet.name
AzureSubnet_name(subnet) == subnet.name

\* the id put together with a one-character delimiter
SubnetIdWithBar(subnet) == AzureSubnet_network_id(subnet) \o <<"|">> \o subnet.name

\* AzureSubnet.id
AzureSubnet_id(subnet) == AzureSubnet_network_id(subnet) \o SubnetIdDelimiter \o subnet.name

\* the names Azure gives to networks and subnets: letters, digits, '-', '_'
\* and '.', the first a letter or digit
AzureNames == {<<"a">>, <<"n", "-", "1">>, <<"s", "_", "b", ".", "c">>}

OtherSubnetName == <<"z">>

RouteTableId == <<"r", "t", "1">>

RegionNames == {"eastus", "westus"}

NetCall(op, args, ret, err) == [op |-> op, args |-> args, ret |-> ret, err |-> err]

\* AzurePlacementZone.__init__(provider, zone, region)
AzurePlacementZone(zone, region) == [azure_zone |-> zone, azure_region |-> region]

AzurePlacementZone_id(z) == z.azure_zone
AzurePlacementZone_name(z) == z.azure_region
AzurePlacementZone_region_name(z) == z.azure_region

\* zones listing a zone per region known
ZonesOfAllRegions(azure_region) ==
    LET other == CHOOSE r \in RegionNames : r # azure_region.name
    IN <<AzurePlacementZone(azure_region.name, azure_region.name),
         AzurePlacementZone(other, other)>>

\* AzureRegion.zones
AzureRegion_zones(azure_region) ==
    <<AzurePlacementZone(azure_region.name, azure_region.name)>>

\* the subnets the calls are made with
NetSubnets == {net.subnet, SubnetAdapter(net.subnet.network_id, OtherSubnetName)}

InitNet ==
    /\ \E n \in AzureNames, s \in AzureNames, r \in RegionNames :
          net = [stage |-> "live",
                 subnet |-> SubnetAdapter(n, s),
                 region |-> [name |-> r],
                 rt |-> {},
                 cached |-> {},
                 zones |-> <<>>,
                 last |-> NetCall("init", <<>>, "", "none")]
    /\ IdleFw /\ IdleRes /\ IdleDel /\ IdlePorts /\ IdleAtt /\ IdleImg /\ IdleOs /\ IdleLast

\* AzureSubnet.delete(); ok says whether the backend deletes the subnet
AzureSubnet_delete(ok) ==
    LET subnet_id_parts == SplitOn(AzureSubnet_id(net.subnet), SubnetIdDelimiter)
    IN IF Len(subnet_id_parts) < 2
       THEN net' = [net EXCEPT !.last = NetCall("subnet_delete", <<>>, "", "IndexError")]
       ELSE net' = [net EXCEPT
                      !.rt = IF ok THEN @ \ {SubnetAdapter(subnet_id_parts[1], subnet_id_parts[2])}
                             ELSE @,
                      !.last = NetCall("subnet_delete",
                                       <<subnet_id_parts[1], subnet_id_parts[2]>>,
                                       IF ok THEN "True" ELSE "False", "none")]

\* AzureRouter.refresh(): the route table's subnets as fetched
AzureRouter_refresh_subnets(cached, backend) == backend

\* state read from the cached route table
StateFromCache(cached, backend) == IF cached # {} THEN "ATTACHED" ELSE "DETACHED"

\* AzureRouter.state, when the refresh in it succeeds
AzureRouter_state(cached, backend) ==
    IF AzureRouter_refresh_subnets(cached, backend) # {} THEN "ATTACHED" ELSE "DETACHED"

\* AzureRouter.attach_subnet / detach_subnet through this adapter (mine) or
\* through another adapter of the same route table; ok: the backend call
\* succeeds; fetched: the refresh after it succeeds
RouterSubnetCall(op, subnet, mine, ok, fetched) ==
    LET subnet_id_parts == SplitOn(AzureSubnet_id(subnet), SubnetIdDelimiter)
        target == SubnetAdapter(subnet_id_parts[1], subnet_id_parts[2])
        rt == IF ~ok THEN net.rt
              ELSE IF op = "attach_subnet" THEN net.rt \cup {target}
              ELSE net.rt \ {target}
    IN IF Len(subnet_id_parts) < 2
       THEN net' = [net EXCEPT !.last = NetCall(op, <<>>, "", "IndexError")]
       ELSE net' = [net EXCEPT
                      !.rt = rt,
                      !.cached = IF mine /\ ok /\ fetched
                                 THEN AzureRouter_refresh_subnets(@, rt) ELSE @,
                      !.last = NetCall(op,
                                       <<subnet_id_parts[1], subnet_id_parts[2], RouteTableId>>,
                                       "", IF ok /\ fetched THEN "none" ELSE "CloudError")]

AzureRouter_attach_subnet(subnet, mine, ok, fetched) ==
    RouterSubnetCall("attach_subnet", subnet, mine, ok, fetched)

AzureRouter_detach_subnet(subnet, mine, ok, fetched) ==
    RouterSubnetCall("detach_subnet", subnet, mine, ok, fetched)

\* a read of AzureRouter.state; fetched: get_route_table answers
ReadRouterState(fetched) ==
    IF fetched
    THEN net' = [net EXCEPT
                   !.cached = AzureRouter_refresh_subnets(@, net.rt),
                   !.last = NetCall("state", <<>>, AzureRouter_state(net.cached, net.rt), "none")]
    ELSE net' = [net EXCEPT !.last = NetCall("state", <<>>, "", "CloudError")]

\* AzureRouter.attach_gateway / detach_gateway
AzureRouter_gateway(op) ==
    net' = [net EXCEPT !.last = NetCall(op, <<>>, "", "none")]

\* a read of AzureRegion.zones
ReadZones ==
    net' = [net EXCEPT !.zones = AzureRegion_zones(net.region),
                       !.last = NetCall("zones", <<>>, "", "none")]

NetStep ==
    UNCHANGED <<cloud, mem, fwtags, nic, last, steps, res, azure, resop, vm, disks, calls, pc, prange, att, img, ostack, inst, race>>

NextNet ==
    \/ \E ok \in BOOLEAN : NetStep /\ AzureSubnet_delete(ok)
    \/ \E subnet \in NetSubnets, mine, ok, fetched \in BOOLEAN :
          NetStep /\ AzureRouter_attach_subnet(subnet, mine, ok, fetched)
    \/ \E subnet \in NetSubnets, mine, ok, fetched \in BOOLEAN :
          NetStep /\ AzureRouter_detach_subnet(subnet, mine, ok, fetched)
    \/ \E fetched \in BOOLEAN : NetStep /\ ReadRouterState(fetched)
    \/ \E op \in {"attach_gateway", "detach_gateway"} : NetStep /\ AzureRouter_gateway(op)
    \/ NetStep /\ ReadZones

SpecNet == InitNet /\ [][NextNet]_vars

\* C11: the subnet's id is network id + '|$|' + subnet name; splitting it on
\* '|$|' gives back exactly the network id and the subnet name; and these two
\* are what delete() and the router's attach_subnet / detach_subnet hand to the
\* backend.
C11_SubnetIdRoundTrip ==
    /\ \A subnet \in NetSubnets :
          /\ AzureSubnet_id(subnet) = subnet.network_id \o <<"|", "$", "|">> \o subnet.name
          /\ SplitOn(AzureSubnet_id(subnet), <<"|", "$", "|">>)
                 = <<subnet.network_id, subnet.name>>
    /\ net.last.op = "subnet_delete"
         => net.last.args = <<net.subnet.network_id, net.subnet.name>>
    /\ net.last.op \in {"attach_subnet", "detach_subnet"}
         => /\ Len(net.last.args) = 3
            /\ \E subnet \in NetSubnets :
                  net.last.args = <<subnet.network_id, subnet.name, RouteTableId>>

\* a subnet whose names hold '-', '_' and '.' deleted, and attached before
C11_Witness ==
    /\ net.last.op = "subnet_delete"
    /\ net.last.ret = "True"
    /\ net.subnet.network_id = <<"n", "-", "1">>
    /\ net.subnet.name = <<"s", "_", "b", ".", "c">>
    /\ net.cached # {}

SNAPSHOT_STATE_MAP(state) ==
    CASE state = "InProgress" -> "PENDING"
      [] state = "Succeeded" -> "AVAILABLE"
      [] state \in {"Failed", "Canceled"} -> "ERROR"
      [] state \in {"Updating", "Deleting"} -> "CONFIGURING"
      [] OTHER -> "UNKNOWN"

\* AzureMachineImage.IMAGE_STATE_MAP.get(state, MachineImageState.UNKNOWN)
IMAGE_STATE_MAP(state) ==
    CASE state = "InProgress" -> "PENDING"
      [] state = "Succeeded" -> "AVAILABLE"
      [] state = "Failed" -> "ERROR"
      [] OTHER -> "UNKNOWN"

\* AzureNetwork.NETWORK_STATE_MAP.get(state, NetworkState.UNKNOWN)
NETWORK_STATE_MAP(state) ==
    CASE state = "InProgress" -> "PENDING"
      [] state = "Succeeded" -> "AVAILABLE"
      [] OTHER -> "UNKNOWN"

\* the state property of an adapter of a kind that has one fed by refresh()
Adapter_state(r) ==
    CASE r.kind = "Volume" -> AzureVolume_state(r)
      [] r.kind = "Snapshot" -> SNAPSHOT_STATE_MAP(r.state)
      [] r.kind = "MachineImage" -> IMAGE_STATE_MAP(r.state)
      [] r.kind = "Network" -> NETWORK_STATE_MAP(r.state)
      [] r.kind = "Instance" -> AzureInstance_state(r)

RefreshCatchers == {"Volume", "Snapshot", "MachineImage", "Network", "Instance"}

\* C13: on a Volume, Snapshot, MachineImage, Network or Instance adapter, a
\* refresh() whose backend fetch signals a provider error or an invalid value
\* returns without raising, and state reads UNKNOWN afterwards.
C13_RefreshErrorGivesUnknown ==
    [][(/\ res.kind \in RefreshCatchers
        /\ Constructed
        /\ resop' \in {"refresh_err", "refresh_raised"})
         => /\ resop' = "refresh_err"
            /\ Adapter_state(res') = "UNKNOWN"]_vars

\* C14: an AzureVMFirewall.refresh() whose fetch signals a provider error or an
\* invalid value returns without raising and leaves the adapter as it was:
\* the rule list and the name tag it holds, and with them the backend and the
\* NIC, are unchanged.
C14_FailedFirewallRefreshChangesNothing ==
    [][(/\ last'.op = "refresh"
        /\ last'.args.fetch # "ok")
         => /\ last'.err = "none"
            /\ mem' = mem
            /\ fwtags' = fwtags
            /\ cloud' = cloud
            /\ nic' = nic]_vars

(***************************************************************************)
(* AzureVolume.attach / detach: the data-disk lists of the VMs of the      *)
(* subscription, as the backend holds them.                                *)
(***************************************************************************)
MaxDataDisks == 3

VmNames == {"vm1", "vm2"}

\* resource ids of this volume and of another one
ThisVolume == "disks/vol1"
OtherVolume == "disks/vol2"

\* an entry of storage_profile.data_disks; managed_disk is None for a disk
\* that is not a managed disk
DataDisk(lun, managed_disk) == [lun |-> lun, managed_disk |-> managed_disk]

\* list.remove(item): the list without its first element equal to item
RECURSIVE ListRemove(_, _)
ListRemove(list, item) ==
    IF list = <<>> THEN list
    ELSE IF Head(list) = item THEN Tail(list)
    ELSE <<Head(list)>> \o ListRemove(Tail(list), item)

\* AzureVolume.detach, the inner loop: `for item in data_disks` is at its i-th
\* step over the list as it is by then
RECURSIVE DetachFromVm(_, _, _)
DetachFromVm(data_disks, i, resource_id) ==
    IF i > Len(data_disks) THEN data_disks
    ELSE LET item == data_disks[i]
         IN IF item.managed_disk # None /\ item.managed_disk[1] = resource_id
            THEN DetachFromVm(ListRemove(data_disks, item), i + 1, resource_id)
            ELSE DetachFromVm(data_disks, i + 1, resource_id)

AttCall(op, ret, err) == [op |-> op, ret |-> ret, err |-> err]

InitAtt ==
    /\ \E d1, d2 \in {<<>>, <<DataDisk(0, Some(OtherVolume))>>, <<DataDisk(0, None)>>} :
          att = [stage |-> "live",
                 vms |-> [v \in VmNames |-> IF v = "vm1" THEN d1 ELSE d2],
                 last |-> AttCall("init", "", "none")]
    /\ IdleFw /\ IdleRes /\ IdleDel /\ IdlePorts /\ IdleNet /\ IdleImg /\ IdleOs /\ IdleLast

\* volume.attach(instance) for this volume or another one; ok: update_vm
\* accepts the new list
AzureVolume_attach(instance_id, resource_id, ok) ==
    LET data_disks == att.vms[instance_id]
        appended == Append(data_disks, DataDisk(Len(data_disks), Some(resource_id)))
    IN /\ Len(data_disks) < MaxDataDisks
       /\ att' = [att EXCEPT !.vms[instance_id] = IF ok THEN appended ELSE @,
                             !.last = AttCall("attach", IF ok THEN "True" ELSE "False", "none")]

\* this volume's detach(); ok: the update_vm calls are accepted
AzureVolume_detach(ok) ==
    LET after == [v \in VmNames |-> DetachFromVm(att.vms[v], 1, ThisVolume)]
    IN IF after = att.vms \/ ok
       THEN att' = [att EXCEPT !.vms = after, !.last = AttCall("detach", "True", "none")]
       ELSE att' = [att EXCEPT !.last = AttCall("detach", "", "CloudError")]

AttStep ==
    UNCHANGED <<cloud, mem, fwtags, nic, last, steps, res, azure, resop, vm, disks, calls, pc, prange, net, img, ostack, inst, race>>

NextAtt ==
    \/ \E v \in VmNames, r \in {ThisVolume, OtherVolume}, ok \in BOOLEAN :
          AttStep /\ AzureVolume_attach(v, r, ok)
    \/ \E ok \in BOOLEAN : AttStep /\ AzureVolume_detach(ok)

SpecAtt == InitAtt /\ [][NextAtt]_vars

\* C15: after this volume's detach() has returned, it has returned true and no
\* VM has a data-disk entry whose managed-disk id is this volume's resource id,
\* whatever the lists held before, several entries for this volume included.
C15_DetachLeavesNoEntry ==
    (att.last.op = "detach" /\ att.last.err = "none")
    => /\ att.last.ret = "True"
       /\ \A v \in VmNames : \A i \in 1..Len(att.vms[v]) :
             ~(/\ att.vms[v][i].managed_disk # None
               /\ att.vms[v][i].managed_disk[1] = ThisVolume)

\* C16: every read of AzureRouter.state that returns gives ATTACHED exactly when
\* the backend route table holds at least one subnet at the time of the read,
\* whatever the adapter had cached and whichever adapter attached or detached
\* before; attach_gateway and detach_gateway change neither the route table nor
\* what a read of state gives.
C16_StateFollowsBackend ==
    [][/\ (net'.last.op = "state" /\ net'.last.err = "none")
            => /\ net'.last.ret \in {"ATTACHED", "DETACHED"}
               /\ (net'.last.ret = "ATTACHED") <=> (net.rt # {})
               /\ net'.rt = net.rt
       /\ net'.last.op \in {"attach_gateway", "detach_gateway"}
            => /\ net'.rt = net.rt
               /\ net'.cached = net.cached
               /\ net'.last.err = "none"]_vars

\* state read as ATTACHED when the only attached subnet was attached to the
\* route table without this adapter having fetched it since
C16_Witness ==
    /\ net.last.op = "state"
    /\ net.last.ret = "ATTACHED"
    /\ net.rt = {SubnetAdapter(net.subnet.network_id, OtherSubnetName)}

\* C19: AzureRegion.zones of a region named r is a list of exactly one zone
\* whose id, name and region_name are all r.
C19_OneZonePerRegion ==
    net.last.op = "zones"
    => /\ Len(net.zones) = 1
       /\ AzurePlacementZone_id(net.zones[1]) = net.region.name
       /\ AzurePlacementZone_name(net.zones[1]) = net.region.name
       /\ AzurePlacementZone_region_name(net.zones[1]) = net.region.name

\* zones read for the region westus
C19_Witness ==
    /\ net.last.op = "zones"
    /\ net.region.name = "westus"
    /\ Len(net.zones) = 1

\* C17: remove_vm_firewall(fw) unbinds the first NIC's firewall, and pushes a
\* NIC update, only when the id the NIC is bound to equals fw's resource id; in
\* every other case (no firewall bound, another one bound, a merged firewall
\* built from fw included) the binding stays as it was, no create_nic call is
\* made and no firewall changes.
C17_RemoveOnlyTheBoundFirewall ==
    [][last'.op = "remove_vm_firewall"
         => LET bound == nic # None /\ nic[1] = AzureVMFirewall_resource_id(last'.fw)
            IN /\ cloud' = cloud /\ mem' = mem /\ fwtags' = fwtags
               /\ bound => /\ last'.args.create_nic = Some(None)
                           /\ last'.err = "none" => nic' = None
                           /\ last'.err # "none" => nic' = nic
               /\ ~bound => /\ last'.args.create_nic = None
                            /\ last'.err = "none"
                            /\ nic' = nic]_vars

\* fw removed while the NIC is bound to the firewall merged from fw and
\* another one: nothing pushed, the merged firewall stays bound
C17_Witness ==
    /\ last.op = "remove_vm_firewall"
    /\ last.fw \in BaseFws
    /\ last.args.create_nic = None
    /\ nic # None
    /\ ParseFwName(nic[1]) \notin BaseFws
    /\ \E g \in BaseFws : ParseFwName(nic[1]) \in {MergedName(last.fw, g), MergedName(g, last.fw)}

(***************************************************************************)
(* AzureInstance.create_image: the calls it makes to the backend and to    *)
(* the guest, in the order it makes them.                                  *)
(***************************************************************************)
\* values of the instance's cached _state
ImgStates == {"VM generalized", "VM running", "VM deallocated", "Creating"}

\* private_key_path: absent, empty, or a path
KeyPaths == {None, Some(""), Some("key.pem")}

\* AzureInstance._deprovision(private_key_path): the guest calls it makes
AzureInstance_deprovision(private_key_path, public_ips) ==
    IF ~TruthyStr(private_key_path) THEN [calls |-> <<>>, err |-> "none"]
    ELSE IF public_ips = <<>> THEN [calls |-> <<>>, err |-> "IndexError"]
    ELSE [calls |-> <<"sftp_connect", "waagent_deprovision">>, err |-> "none"]

\* the calls of create_image when every one of them succeeds
CreateImagePlan(state, private_key_path, public_ips) ==
    LET start == IF state # "VM running"
                 THEN <<"start_vm", "_get_network_attributes">> ELSE <<>>
        dep == AzureInstance_deprovision(private_key_path, public_ips)
        capture == <<"create_image", "get_image">>
    IN IF state = "VM generalized" THEN [calls |-> capture, err |-> "none"]
       ELSE IF dep.err # "none" THEN [calls |-> start \o dep.calls, err |-> dep.err]
       ELSE [calls |-> start \o dep.calls \o <<"deallocate_vm", "generalize_vm">> \o capture,
             err |-> "none"]

\* the backend's state of the VM after the calls that succeeded
RECURSIVE VmStateAfter(_, _)
VmStateAfter(done, state) ==
    IF done = <<>> THEN state
    ELSE VmStateAfter(Tail(done),
                      CASE Head(done) = "start_vm" -> "VM running"
                        [] Head(done) = "deallocate_vm" -> "VM deallocated"
                        [] Head(done) = "generalize_vm" -> "VM generalized"
                        [] OTHER -> state)

InitImg ==
    /\ \E s \in ImgStates, ips \in {<<>>, <<"10.0.0.4">>} :
          img = [stage |-> "live", state |-> s, vm_state |-> s, public_ips |-> ips,
                 op |-> "init", key |-> None, calls |-> <<>>, err |-> "none"]
    /\ IdleFw /\ IdleRes /\ IdleDel /\ IdlePorts /\ IdleNet /\ IdleAtt /\ IdleOs /\ IdleLast

\* instance.create_image(name, private_key_path); valid: the name passes
\* assert_valid_resource_name; fail: the call that raises, counted among the
\* calls made, 0 when none does
AzureInstance_create_image(valid, private_key_path, fail) ==
    LET plan == CreateImagePlan(img.state, private_key_path, img.public_ips)
        issued == IF ~valid THEN <<>>
                  ELSE IF fail = 0 THEN plan.calls ELSE SubSeq(plan.calls, 1, fail)
        done == IF fail = 0 THEN issued ELSE SubSeq(issued, 1, Len(issued) - 1)
    IN img' = [img EXCEPT
                 !.op = "create_image",
                 !.key = private_key_path,
                 !.calls = issued,
                 !.vm_state = VmStateAfter(done, @),
                 !.err = IF ~valid THEN "InvalidNameException"
                         ELSE IF fail # 0 THEN "CloudError" ELSE plan.err]

\* instance.refresh() reading the VM's state into _state
RefreshImgState ==
    img' = [img EXCEPT !.op = "refresh", !.state = img.vm_state]

ImgStep ==
    UNCHANGED <<cloud, mem, fwtags, nic, last, steps, res, azure, resop, vm, disks, calls, pc, prange, net, att, ostack, inst, race>>

NextImg ==
    \/ \E valid \in BOOLEAN, key \in KeyPaths :
       \E fail \in 0..(IF valid THEN Len(CreateImagePlan(img.state, key, img.public_ips).calls) ELSE 0) :
          ImgStep /\ AzureInstance_create_image(valid, key, fail)
    \/ ImgStep /\ RefreshImgState

SpecImg == InitImg /\ [][NextImg]_vars

\* C18: in a create_image call that issues generalize_vm, the deprovision
\* command was executed on the guest earlier in the call, deallocate_vm was
\* issued after it and before generalize_vm, and the image capture is issued
\* only after generalize_vm, whatever private_key_path is, absent included.
C18_DeprovisionBeforeGeneralize ==
    (img.op = "create_image" /\ \E g \in 1..Len(img.calls) : img.calls[g] = "generalize_vm")
    => \E d, a, g \in 1..Len(img.calls) :
          /\ d < a /\ a < g
          /\ img.calls[d] = "waagent_deprovision"
          /\ img.calls[a] = "deallocate_vm"
          /\ img.calls[g] = "generalize_vm"
          /\ \A c \in 1..Len(img.calls) : img.calls[c] = "create_image" => g < c

(***************************************************************************)
(* OpenStackInstance: an adapter around the instance object of the         *)
(* OpenStack client.                                                       *)
(***************************************************************************)
MaxReboots == 2

OsNames == {"os1", "web", ""}

\* the wrapped client object: reboots and deleted are what its reboot() and
\* delete() calls have done
OsInstance(id, name) == [id |-> id, name |-> name, reboots |-> 0, deleted |-> FALSE]

OsCall(op, ret, err) == [op |-> op, ret |-> ret, err |-> err]

InitOs ==
    /\ \E id \in {"i-1", "i-2"}, name \in OsNames :
          ostack = [stage |-> "live", os_instance |-> OsInstance(id, name),
                    last |-> OsCall("init", None, "none")]
    /\ IdleFw /\ IdleRes /\ IdleDel /\ IdlePorts /\ IdleNet /\ IdleAtt /\ IdleImg /\ IdleLast

\* a mac_address that answers from the wrapped instance
MacFromWrapped(os_instance) == [ret |-> Some(os_instance.id), err |-> "none"]

\* OpenStackInstance.mac_address()
OpenStackInstance_mac_address(os_instance) == [ret |-> None, err |-> "NotImplementedError"]

\* instance.name = value
OpenStackInstance_set_name(value) ==
    ostack' = [ostack EXCEPT !.os_instance.name = value,
                             !.last = OsCall("set_name", None, "none")]

\* instance.name
OpenStackInstance_name ==
    ostack' = [ostack EXCEPT !.last = OsCall("name", Some(ostack.os_instance.name), "none")]

\* instance.reboot(); ok: the client's call succeeds
OpenStackInstance_reboot(ok) ==
    /\ ostack.os_instance.reboots < MaxReboots
    /\ ostack' = [ostack EXCEPT
                    !.os_instance.reboots = IF ok THEN @ + 1 ELSE @,
                    !.last = OsCall("reboot", None, IF ok THEN "none" ELSE "ClientException")]

\* instance.terminate(); ok: the client's call succeeds
OpenStackInstance_terminate(ok) ==
    ostack' = [ostack EXCEPT
                 !.os_instance.deleted = IF ok THEN TRUE ELSE @,
                 !.last = OsCall("terminate", None, IF ok THEN "none" ELSE "ClientException")]

\* a call of instance.mac_address()
CallMacAddress ==
    LET out == OpenStackInstance_mac_address(ostack.os_instance)
    IN ostack' = [ostack EXCEPT !.last = OsCall("mac_address", out.ret, out.err)]

OsStep ==
    UNCHANGED <<cloud, mem, fwtags, nic, last, steps, res, azure, resop, vm, disks, calls, pc, prange, net, att, img, inst, race>>

NextOs ==
    \/ \E value \in OsNames : OsStep /\ OpenStackInstance_set_name(value)
    \/ OsStep /\ OpenStackInstance_name
    \/ \E ok \in BOOLEAN : OsStep /\ OpenStackInstance_reboot(ok)
    \/ \E ok \in BOOLEAN : OsStep /\ OpenStackInstance_terminate(ok)
    \/ OsStep /\ CallMacAddress

SpecOs == InitOs /\ [][NextOs]_vars

\* C20: every call of OpenStackInstance.mac_address() ends with the
\* not-implemented error and returns no value, for every wrapped instance and
\* after any name writes, reboots and terminate, and leaves the wrapped
\* instance as it was.
C20_MacAddressNotImplemented ==
    [][ostack'.last.op = "mac_address"
         => /\ ostack'.last.err = "NotImplementedError"
            /\ ostack'.last.ret = None
            /\ ostack'.os_instance = ostack.os_instance]_vars

\* mac_address called on a renamed, rebooted and terminated instance
C20_Witness ==
    /\ ostack.last.op = "mac_address"
    /\ ostack.last.err = "NotImplementedError"
    /\ ostack.os_instance.deleted
    /\ ostack.os_instance.reboots > 0
    /\ ostack.os_instance = [id |-> "i-2", name |-> "web", reboots |-> 1, deleted |-> TRUE]

\* the calls of delete() that change the backend, in the order they were
\* issued, without their outcome
MutatingCalls ==
    LET mutating == SelectSeq(calls, LAMBDA c : c[1] # "get_disk")
    IN [k \in 1..Len(mutating) |-> <<mutating[k][1], mutating[k][2]>>]

\* the order the claim gives, for the VM as network discovery and the storage
\* profile describe it
ClaimedDeleteOrder ==
    LET qualifying == SelectSeq(vm.data_disks,
                                LAMBDA d : d.managed_disk # None /\ TaggedTrue(d.name))
    IN <<<<"deallocate_vm", vm.name>>, <<"delete_vm", vm.name>>>>
       \o [k \in 1..Len(vm.nic_ids) |-> <<"delete_nic", vm.nic_ids[k]>>]
       \o [k \in 1..Len(vm.public_ip_ids) |-> <<"delete_public_ip", vm.public_ip_ids[k]>>]
       \o [k \in 1..Len(qualifying) |-> <<"delete_disk", qualifying[k].name>>]
       \o (IF vm.os_disk.managed_disk # None THEN <<<<"delete_disk", OsDiskName>>>> ELSE <<>>)

MaxNameParts == 3

FloatingIpIds == {"ip1", "ip2"}

\* azure_client.get_public_ip(name).ip_address
PublicIpAddress(id) == IF id = "ip1" THEN "52.0.0.1" ELSE "52.0.0.2"

\* an IP configuration of a NIC; public_ip_address is None when none is bound
IpConfig(private, public) == [private_ip_address |-> private, public_ip_address |-> public]

\* AzureInstance._get_network_attributes over the NIC as the backend holds it
AzureInstance_get_network_attributes(n) ==
    LET bound == SelectSeq(n.ip_configurations, LAMBDA c : c.public_ip_address # None)
    IN [vm_firewall_ids |-> IF n.network_security_group # None
                            THEN <<ParseFwName(n.network_security_group[1])>> ELSE <<>>,
        private_ips |-> [i \in 1..Len(n.ip_configurations) |->
                            n.ip_configurations[i].private_ip_address],
        public_ip_ids |-> [i \in 1..Len(bound) |-> bound[i].public_ip_address[1]],
        public_ips |-> [i \in 1..Len(bound) |-> PublicIpAddress(bound[i].public_ip_address[1])]]

InstCall(op, arg, updates, err) == [op |-> op, arg |-> arg, updates |-> updates, err |-> err]

InitInst ==
    /\ \E group \in {None, Some(FwResourceId(<<"fw1">>))},
          p1, p2 \in {None} \cup {Some(i) : i \in FloatingIpIds}, two \in BOOLEAN :
          LET n == [network_security_group |-> group,
                    ip_configurations |->
                        IF two THEN <<IpConfig("10.0.0.4", p1), IpConfig("10.0.0.5", p2)>>
                        ELSE <<IpConfig("10.0.0.4", p1)>>]
          IN inst = [stage |-> "live", nic |-> n,
                     recorded |-> AzureInstance_get_network_attributes(n),
                     last |-> InstCall("init", "", 0, "none")]
    /\ IdleFw /\ IdleRes /\ IdleDel /\ IdlePorts /\ IdleLater /\ IdleRace

\* the write of a NIC: the backend takes it when ok, else the call raises
WriteNic(op, arg, n, ok) ==
    inst' = [inst EXCEPT !.nic = IF ok THEN n ELSE @,
                         !.last = InstCall(op, arg, 1, IF ok THEN "none" ELSE "CloudError")]

\* instance.add_vm_firewall(fw), as to the NIC's binding
InstAddVmFirewall(fw, ok) ==
    LET group == inst.nic.network_security_group
        name == IF group = None THEN fw ELSE fw \o ParseFwName(group[1])
    IN /\ Len(name) <= MaxNameParts
       /\ WriteNic("add_vm_firewall", fw,
                   [inst.nic EXCEPT !.network_security_group = Some(FwResourceId(name))], ok)

\* instance.remove_vm_firewall(fw)
InstRemoveVmFirewall(fw, ok) ==
    IF RemoveVmFirewallUpdate(inst.nic.network_security_group, fw) # None
    THEN WriteNic("remove_vm_firewall", fw,
                  [inst.nic EXCEPT !.network_security_group = None], ok)
    ELSE inst' = [inst EXCEPT !.last = InstCall("remove_vm_firewall", fw, 0, "none")]

\* AzureInstance.add_floating_ip(floating_ip)
AzureInstance_add_floating_ip(floating_ip, ok) ==
    WriteNic("add_floating_ip", floating_ip,
             [inst.nic EXCEPT !.ip_configurations[1].public_ip_address = Some(floating_ip)], ok)

\* AzureInstance.remove_floating_ip, its loop at the i-th IP configuration:
\* the configurations as written so far, the NIC updates issued, the error
RECURSIVE RemoveFloatingIpLoop(_, _, _, _, _)
RemoveFloatingIpLoop(configs, i, floating_ip, updates, ok) ==
    IF i > Len(configs) THEN [configs |-> configs, updates |-> updates, err |-> "none"]
    ELSE IF configs[i].public_ip_address = None
    THEN [configs |-> configs, updates |-> updates, err |-> "AttributeError"]
    ELSE IF configs[i].public_ip_address[1] # floating_ip
    THEN RemoveFloatingIpLoop(configs, i + 1, floating_ip, updates, ok)
    ELSE IF ~ok
    THEN [configs |-> configs, updates |-> updates + 1, err |-> "CloudError"]
    ELSE RemoveFloatingIpLoop([configs EXCEPT ![1].public_ip_address = None],
                              i + 1, floating_ip, updates + 1, ok)

\* AzureInstance.remove_floating_ip(floating_ip)
AzureInstance_remove_floating_ip(floating_ip, ok) ==
    LET out == RemoveFloatingIpLoop(inst.nic.ip_configurations, 1, floating_ip, 0, ok)
    IN inst' = [inst EXCEPT !.nic.ip_configurations = out.configs,
                            !.last = InstCall("remove_floating_ip", floating_ip,
                                              out.updates, out.err)]

\* instance.refresh(); fetched: the backend answers
InstRefresh(fetched) ==
    inst' = [inst EXCEPT
               !.recorded = IF fetched THEN AzureInstance_get_network_attributes(inst.nic) ELSE @,
               !.last = InstCall("refresh", "", 0, "none")]

InstStep ==
    UNCHANGED <<cloud, mem, fwtags, nic, last, steps, res, azure, resop, vm, disks, calls, pc, prange, net, att, img, ostack, race>>

NextInst ==
    \/ \E fw \in BaseFws, ok \in BOOLEAN : InstStep /\ InstAddVmFirewall(fw, ok)
    \/ \E fw \in BaseFws, ok \in BOOLEAN : InstStep /\ InstRemoveVmFirewall(fw, ok)
    \/ \E fip \in FloatingIpIds, ok \in BOOLEAN : InstStep /\ AzureInstance_add_floating_ip(fip, ok)
    \/ \E fip \in FloatingIpIds, ok \in BOOLEAN : InstStep /\ AzureInstance_remove_floating_ip(fip, ok)
    \/ \E fetched \in BOOLEAN : InstStep /\ InstRefresh(fetched)

SpecInst == InitInst /\ [][NextInst]_vars

\* C22: after add_vm_firewall, remove_vm_firewall, add_floating_ip or
\* remove_floating_ip has returned, the firewall ids and the public and
\* private IPs the adapter recorded are what network discovery over the NIC
\* yields now, without a refresh() by the caller.
C22_RecordedAttributesFollowNic ==
    (/\ inst.stage = "live"
     /\ inst.last.op \in {"add_vm_firewall", "remove_vm_firewall",
                          "add_floating_ip", "remove_floating_ip"}
     /\ inst.last.err = "none")
    => inst.recorded = AzureInstance_get_network_attributes(inst.nic)

\* C30: remove_floating_ip(fip) on a first NIC with one or more IP
\* configurations clears the public IP of exactly the configurations bound to
\* fip and of no other; when none is bound to fip, configurations without a
\* public IP included, the call ends without error, leaves every binding as it
\* was and issues no NIC update.
C30_RemoveClearsOnlyTheBoundConfig ==
    [][(inst'.last.op = "remove_floating_ip" /\ inst'.last.err # "CloudError")
         => LET before == inst.nic.ip_configurations
                after == inst'.nic.ip_configurations
                boundTo(c) == c.public_ip_address = Some(inst'.last.arg)
            IN /\ inst'.last.err = "none"
               /\ Len(after) = Len(before)
               /\ \A i \in 1..Len(before) :
                     after[i] = IF boundTo(before[i])
                                THEN [before[i] EXCEPT !.public_ip_address = None]
                                ELSE before[i]
               /\ (\A i \in 1..Len(before) : ~boundTo(before[i]))
                     => inst'.last.updates = 0]_vars

\* C23: every rule _create_rule makes gets priority 1000 + n and name
\* 'Rule - n', n being one more than the number of entries of the firewall's
\* in-memory rule list at that moment (rules of the reserved band counted), and
\* is sent with source_port_range '*', destination_address_prefix '*', access
\* 'Allow' and direction 'Inbound' exactly when INBOUND was asked for, else
\* 'Outbound'.
C23_RuleNumberedAfterListLength ==
    [][last'.op = "create"
         => LET f == last'.fw
                source == IF last'.args.src_dest_fw = None THEN <<>>
                          ELSE Listing(last'.args.src_dest_fw[1], last'.args.by_id)
                direct == /\ TruthyStr(last'.args.protocol)
                          /\ TruthyInt(last'.args.from_port)
                          /\ TruthyInt(last'.args.to_port)
                asked(k) == IF direct THEN last'.args.direction
                            ELSE AzureVMFirewallRule_direction(source[k - Len(mem[f])])
            IN \A k \in (Len(mem[f]) + 1)..Len(mem'[f]) :
                  LET rule == mem'[f][k]
                  IN /\ rule.priority = 1000 + k
                     /\ rule.name = <<"Rule - ">> \o Str(k)
                     /\ rule.source_port_range = <<"*">>
                     /\ rule.destination_address_prefix = <<"*">>
                     /\ rule.access = "Allow"
                     /\ rule.direction = (IF asked(k) = "INBOUND" THEN "Inbound" ELSE "Outbound")
                     /\ \E c \in 1..Len(cloud'[AzureVMFirewall_id(f)]) :
                           cloud'[AzureVMFirewall_id(f)][c] = rule]_vars

\* an outbound rule created third on a firewall whose two rules in memory
\* include one of the reserved band
C23_Witness ==
    /\ last.op = "create"
    /\ last.ret # None
    /\ last.args.direction = "OUTBOUND"
    /\ last.ret[1].priority = 1003
    /\ last.ret[1].name = <<"Rule - ", "3">>
    /\ last.ret[1].direction = "Outbound"
    /\ \E k \in 1..Len(mem[last.fw]) : mem[last.fw][k].priority >= ReservedPriority

\* C25: after any sequence of rule creations and rule deletions on a firewall
\* adapter, no two rules of its in-memory rule list share a name and no two
\* share a priority.
C25_RuleNamesAndPrioritiesDistinct ==
    \A f \in Fws : \A i, j \in 1..Len(mem[f]) :
        i # j => /\ mem[f][i].name # mem[f][j].name
                 /\ mem[f][i].priority # mem[f][j].priority

\* C28: AzureVMFirewallRule.delete() addresses the backend deletion to the
\* identifier rule creation used, the firewall's provider-assigned id, also for
\* a firewall whose 'Name' tag differs from its provider-assigned name: the
\* rule deleted is gone from the backend firewall of that id.
C28_RuleDeleteAddressesFirewallId ==
    [][last'.op = "rule_delete"
         => LET f == last'.fw
            IN /\ AzureVMFirewall_name(f) = AzureVMFirewall_id(f)
               /\ last'.err = "none"
               /\ \A c \in 1..Len(cloud'[AzureVMFirewall_id(f)]) :
                     cloud'[AzureVMFirewall_id(f)][c].name # last'.args.name]_vars

\* C29: add_vm_firewall(fw) called while the first NIC is already bound to fw
\* leaves the NIC bound to fw and creates no firewall, so that calling it twice
\* is as calling it once.
C29_AddBoundFirewallChangesNothing ==
    [][(/\ last'.op = "add_vm_firewall"
        /\ nic = Some(AzureVMFirewall_resource_id(last'.fw)))
         => /\ nic' = nic
            /\ DOMAIN cloud' = DOMAIN cloud]_vars

\* C26: after any sequence of attach and detach calls of volumes on a VM, the
\* LUNs of the VM's data-disk entries are pairwise distinct.
C26_LunsDistinct ==
    att.stage = "live"
    => \A v \in VmNames : \A i, j \in 1..Len(att.vms[v]) :
          i # j => att.vms[v][i].lun # att.vms[v][j].lun

\* C27: constructing an AzureInstance, and calling refresh() on it, end with
\* the state taken from the payload for every backend answer, also when
\* neither the payload given nor the VM get_vm returns has an instance view:
\* the mutual calls of _update_state and refresh are bounded and the state is
\* then the provisioning state.
C27_InstanceViewFetchBounded ==
    [][(/\ res.kind = "Instance"
        /\ resop' \in {"init", "init_RecursionError", "refresh_ok", "RecursionError"})
         => /\ resop' \in {"init", "refresh_ok"}
            /\ res'.state = InstanceStateOf(res'.payload)]_vars

(***************************************************************************)
(* Two AzureInstance adapters of one VM, each making one add_vm_firewall   *)
(* call: get_nic, the change made on the NIC object read, create_nic.      *)
(***************************************************************************)
Adapters == {"a", "b"}

\* the firewall add_vm_firewall binds, given the binding get_nic returned: fw
\* itself, or the firewall merged from fw and the one bound
BindingFromFirewallOnly(seen, fw) == fw

BindingWritten(seen, fw) == IF seen = None THEN fw ELSE fw \o ParseFwName(seen[1])

InitRace ==
    /\ \E bound \in {None, Some(FwResourceId(<<"fw0">>))}, fa \in BaseFws :
          race = [stage |-> "live",
                  nic |-> bound,
                  fws |-> BaseFws \cup {<<"fw0">>},
                  proc |-> [p \in Adapters |->
                               [pc |-> "get_nic",
                                fw |-> IF p = "a" THEN fa ELSE CHOOSE g \in BaseFws : g # fa,
                                seen |-> None]],
                  order |-> <<>>]
    /\ IdleFw /\ IdleRes /\ IdleDel /\ IdlePorts /\ IdleLater /\ IdleInst

\* adapter p reads the NIC; ok: the backend answers
RaceGetNic(p, ok) ==
    /\ race.proc[p].pc = "get_nic"
    /\ race' = [race EXCEPT
                  !.proc[p].pc = IF ok THEN "create_nic" ELSE "failed",
                  !.proc[p].seen = IF ok THEN race.nic ELSE @,
                  !.order = Append(@, <<p, "get_nic">>)]

\* adapter p changes the NIC object it read (making the merged firewall when
\* one was bound) and writes it; ok: the backend takes the NIC
RaceCreateNic(p, ok) ==
    LET name == BindingWritten(race.proc[p].seen, race.proc[p].fw)
    IN /\ race.proc[p].pc = "create_nic"
       /\ race' = [race EXCEPT
                     !.fws = @ \cup {name},
                     !.nic = IF ok THEN Some(FwResourceId(name)) ELSE @,
                     !.proc[p].pc = IF ok THEN "done" ELSE "failed",
                     !.order = Append(@, <<p, "create_nic">>)]

RaceStep ==
    UNCHANGED <<cloud, mem, fwtags, nic, last, steps, res, azure, resop, vm, disks, calls, pc, prange, net, att, img, ostack, inst>>

NextRace ==
    \/ \E p \in Adapters, ok \in BOOLEAN : RaceStep /\ RaceGetNic(p, ok)
    \/ \E p \in Adapters, ok \in BOOLEAN : RaceStep /\ RaceCreateNic(p, ok)

SpecRace == InitRace /\ [][NextRace]_vars

\* the firewalls whose rules the firewall bound to the NIC holds: a merged
\* firewall holds the clones of the rules of the firewalls it was merged from
RulesBoundFrom == IF race.nic = None THEN {}
                  ELSE {ParseFwName(race.nic[1])[k] : k \in 1..Len(ParseFwName(race.nic[1]))}

BothReturned == \A p \in Adapters : race.proc[p].pc = "done"

\* the position of a call of adapter p among the backend calls made
RacePos(p, call) == CHOOSE k \in 1..Len(race.order) : race.order[k] = <<p, call>>

\* C24: two adapters of one VM calling add_vm_firewall with different
\* firewalls can race: both calls return and the firewall bound to the NIC
\* holds the rules of only one of the two firewalls.  This is the outcome
\* exactly of the interleavings in which each call read the NIC before the
\* other wrote it; when one call wrote before the other read, the bound
\* firewall holds the rules of both.
C24_AddVmFirewallRace ==
    (race.stage = "live" /\ BothReturned)
    => LET serial == \E p, q \in Adapters :
                        p # q /\ RacePos(p, "create_nic") < RacePos(q, "get_nic")
       IN /\ serial => \A p \in Adapters : race.proc[p].fw[1] \in RulesBoundFrom
          /\ ~serial => \E p \in Adapters :
                           /\ race.proc[p].fw[1] \notin RulesBoundFrom
                           /\ RacePos(p, "create_nic") < Len(race.order)

\* both calls returned, the NIC bound to the firewall of b alone: the binding
\* a wrote is lost
C24_Witness ==
    /\ race.stage = "live"
    /\ BothReturned
    /\ race.nic = Some(FwResourceId(race.proc["b"].fw))
    /\ race.proc["a"].fw[1] \notin RulesBoundFrom
    /\ race.order = <<<<"a", "get_nic">>, <<"b", "get_nic">>, <<"a", "create_nic">>,
                      <<"b", "create_nic">>>>

====
